---------------------------- MODULE Spec2Model ----------------------------
(***************************************************************************)
(* A model of the hemoglobin card search library: the ternary logic, the   *)
(* imprecise number comparisons, the card readers, the query evaluator     *)
(* (matches_query) with its devoured-by cache, and search.                  *)
(*                                                                         *)
(* Texts are sequences of one-character strings, Option<T> is a sequence   *)
(* of length 0 (None) or 1 (Some), a reference to a card of the catalogue  *)
(* is its index in the catalogue.                                          *)
(***************************************************************************)
EXTENDS Integers, Sequences, FiniteSets, TLC

VARIABLES
    build,      \* "debug" (overflow checks on) or "release" (wrapping arithmetic)
    \* ---- numbers: one call of a Compare method on a card's numeric slot
    ncard,      \* the card whose numeric property is read
    nprop,      \* the numeric property that is read
    nslot,      \* Option<MaybeImprecise> read from the card (after ReadNum)
    nk,         \* the usize the slot is compared with
    ncalled,    \* the Compare method that was called, or "none"
    noutcome,   \* its outcome: a Ternary, "Panic", or "none"
    \* ---- search: one call of search(query, cards)
    cards,      \* the catalogue handed to search (a sequence of Cards)
    query,      \* the query handed to search
    sim,        \* what fuzzy_compare answers for each text of the catalogue
    pos,        \* how many cards the filter has consumed
    cache,      \* the Cache of this search call: rendered subquery -> card references
    verdicts,   \* the Ternary matches_query returned for each consumed card
    results,    \* the result vector (references into cards)
    pc,         \* "filter", "sort", "done", "panicked", or "idle"
    \* ---- ordering: imprecise_cmp on three numeric slots
    oa, ob, oc, \* the three Option<MaybeImprecise> values
    ores,       \* None, or Some of the table of imprecise_cmp on every pair
    \* ---- parsing: one call of query_parser(q)
    pin,        \* the text handed to query_parser
    ppos,       \* how many characters of it the tokenizer has consumed
    tk,         \* the locals of tokenize_query and how far the call has come
    pout,       \* None, or Some of what query_parser returned
    \* ---- kins: one call of Kin::is_same_or_child and Kin::get_equalness
    ka, kb,     \* self and other
    kres,       \* None, or Some of what the two methods returned
    \* ---- serde: one value written as JSON and read back
    sval,       \* the value handed to the serializer, with its type
    swire,      \* None, or Some of the JSON value the serializer wrote
    sback,      \* None, or Some of what the deserializer made of it
    \* ---- identities: one CardId projected to a query and tried on a card
    gid,        \* the CardId whose get_as_query is called
    gcard,      \* the card the projected query is evaluated on
    gout        \* None, or Some of the restrictions and the card's verdict

vars == <<build, ncard, nprop, nslot, nk, ncalled, noutcome,
          cards, query, sim, pos, cache, verdicts, results, pc,
          oa, ob, oc, ores, pin, ppos, tk, pout,
          ka, kb, kres, sval, swire, sback, gid, gcard, gout>>

numVars == <<ncard, nprop, nslot, nk, ncalled, noutcome>>
searchVars == <<cards, query, sim, pos, cache, verdicts, results, pc>>
parseVars == <<pin, ppos, tk, pout>>
ordVars == <<oa, ob, oc, ores>>
kinVars == <<ka, kb, kres>>
serdeVars == <<sval, swire, sback>>
idVars == <<gid, gcard, gout>>

-----------------------------------------------------------------------------
(* Bounds of the model *)

\* usize is UsizeBits wide
UsizeBits == 3
\* the longest catalogue handed to search
MaxCards == 2

UsizeModulus == 2 ^ UsizeBits
UsizeMax == UsizeModulus - 1
Usize == 0 .. UsizeMax

Builds == {"debug", "release"}

-----------------------------------------------------------------------------
(* Option<T> *)

None == <<>>
Some(x) == <<x>>
IsSome(o) == Len(o) = 1
IsNone(o) == Len(o) = 0

-----------------------------------------------------------------------------
(* Texts *)

\* the characters of the model, in byte order
Alphabet == <<" ", "!", "\"", "(", ")", "+", "-", ".", "/",
              "0", "1", "2", "3", "4", "5", "6", "7", "8", "9",
              ":", "<", "=", ">",
              "A", "B", "C", "F", "H", "I", "O", "R", "S", "T", "X",
              "a", "b", "c", "d", "e", "f", "g", "h", "i", "l", "m", "n", "o",
              "r", "s", "t", "u", "v", "x", "y", "z">>

CharCode(ch) == CHOOSE i \in 1 .. Len(Alphabet) : Alphabet[i] = ch

UpperChars == <<"A", "B", "C", "F", "H", "I", "O", "R", "S", "T", "X">>
LowerChars == <<"a", "b", "c", "f", "h", "i", "o", "r", "s", "t", "x">>

\* char::to_lowercase
ToLowerChar(ch) ==
    IF \E i \in 1 .. Len(UpperChars) : UpperChars[i] = ch
    THEN LowerChars[CHOOSE i \in 1 .. Len(UpperChars) : UpperChars[i] = ch]
    ELSE ch

\* str::to_lowercase
ToLowercase(s) == [i \in 1 .. Len(s) |-> ToLowerChar(s[i])]

\* str::contains
StrContains(hay, needle) ==
    \E i \in 0 .. (Len(hay) - Len(needle)) :
        SubSeq(hay, i + 1, i + Len(needle)) = needle

\* the characters clean_ascii removes
CleanRemoved == {"\"", "'", ".", ","}

RECURSIVE DropRemoved(_)
DropRemoved(s) ==
    IF s = <<>> THEN <<>>
    ELSE IF Head(s) \in CleanRemoved THEN DropRemoved(Tail(s))
    ELSE <<Head(s)>> \o DropRemoved(Tail(s))

\* clean_ascii: lowercase, fold the diacritics, remove " ' . ,
FoldDiacritic(ch) ==
    CASE ch = "ä" -> "a" [] ch = "ë" -> "e" [] ch = "ï" -> "i"
      [] ch = "ö" -> "o" [] ch = "ü" -> "u" [] OTHER -> ch

clean_ascii(s) ==
    DropRemoved([i \in 1 .. Len(s) |-> FoldDiacritic(ToLowerChar(s[i]))])

Digits == <<"0", "1", "2", "3", "4", "5", "6", "7", "8", "9">>

\* usize::to_string
RECURSIVE NatToText(_)
NatToText(n) ==
    IF n < 10 THEN <<Digits[n + 1]>>
    ELSE NatToText(n \div 10) \o <<Digits[(n % 10) + 1]>>

\* Ord::cmp on str: lexicographic on the bytes
RECURSIVE StrCmp(_, _)
StrCmp(a, b) ==
    IF a = <<>> /\ b = <<>> THEN "Equal"
    ELSE IF a = <<>> THEN "Less"
    ELSE IF b = <<>> THEN "Greater"
    ELSE IF CharCode(Head(a)) < CharCode(Head(b)) THEN "Less"
    ELSE IF CharCode(Head(a)) > CharCode(Head(b)) THEN "Greater"
    ELSE StrCmp(Tail(a), Tail(b))

\* Ord::cmp on Option<str>: None is less than every Some
OptStrCmp(a, b) ==
    IF IsNone(a) /\ IsNone(b) THEN "Equal"
    ELSE IF IsNone(a) THEN "Less"
    ELSE IF IsNone(b) THEN "Greater"
    ELSE StrCmp(a[1], b[1])

\* std::cmp::Ordering::reverse
Reverse(o) == CASE o = "Less" -> "Greater" [] o = "Greater" -> "Less" [] OTHER -> o

-----------------------------------------------------------------------------
(* Ternary *)

Ternary == {"Void", "False", "True"}

\* the derived Ord of the enum: Void < False < True
TernaryOrd(t) == CASE t = "Void" -> 0 [] t = "False" -> 1 [] t = "True" -> 2

\* Ternary::or
TernaryOr(a, b) == IF TernaryOrd(b) >= TernaryOrd(a) THEN b ELSE a

\* Ternary::and
TernaryAnd(a, b) == IF TernaryOrd(b) < TernaryOrd(a) THEN b ELSE a

\* Ternary::xor
TernaryXor(a, b) ==
    CASE a = "Void" /\ b = "Void" -> "Void"
      [] (a = "True" /\ b \in {"False", "Void"})
         \/ (a \in {"False", "Void"} /\ b = "True") -> "True"
      [] (a \in {"False", "Void"} /\ b = "False")
         \/ (a = "False" /\ b = "Void")
         \/ (a = "True" /\ b = "True") -> "False"

\* a negation that reads a lack of the property as a match
TernaryNot_VoidIsTrue(a) ==
    CASE a = "True" -> "False" [] a = "False" -> "True" [] a = "Void" -> "True"

\* impl Not for Ternary
TernaryNot(a) ==
    CASE a = "True" -> "False" [] a = "False" -> "True" [] a = "Void" -> "Void"

\* impl From<bool> for Ternary
FromBool(b) == IF b THEN "True" ELSE "False"

-----------------------------------------------------------------------------
(* Numbers: MaybeVar, Comparison, MaybeImprecise *)

Const(n) == [kind |-> "Const", n |-> n]
Var(ch) == [kind |-> "Var", ch |-> ch]
Precise(mv) == [kind |-> "Precise", v |-> mv]
Imprecise(c) == [kind |-> "Imprecise", v |-> c]

ComparisonOps == {"GreaterThan", "GreaterThanOrEqual", "LowerThanOrEqual",
                  "Equal", "LowerThan", "NotEqual"}

Cmp(op, n) == [op |-> op, n |-> n]

\* MaybeVar::assume: a variable is assumed to be zero
Assume(mv) == IF mv.kind = "Const" THEN mv.n ELSE 0

\* usize + usize: an overflow panics where overflow checks are on and wraps
\* where they are off
UsizeAdd(a, b, bld) ==
    IF a + b > UsizeMax
    THEN IF bld = "debug" THEN [ok |-> FALSE, v |-> 0]
         ELSE [ok |-> TRUE, v |-> (a + b) % UsizeModulus]
    ELSE [ok |-> TRUE, v |-> a + b]

\* usize - usize, likewise
UsizeSub(a, b, bld) ==
    IF a - b < 0
    THEN IF bld = "debug" THEN [ok |-> FALSE, v |-> 0]
         ELSE [ok |-> TRUE, v |-> (a - b) % UsizeModulus]
    ELSE [ok |-> TRUE, v |-> a - b]

\* MaybeImprecise::gt
MaybeImpreciseGt(s, k, bld) ==
    IF s.kind = "Precise" THEN FromBool(Assume(s.v) > k)
    ELSE LET x == s.v IN
         CASE x.op \in {"GreaterThan", "GreaterThanOrEqual", "NotEqual"} -> "True"
           [] x.op = "LowerThan" ->
                LET sum == UsizeAdd(k, 1, bld) IN
                IF sum.ok THEN FromBool(x.n > sum.v) ELSE "Panic"
           [] x.op \in {"LowerThanOrEqual", "Equal"} -> FromBool(x.n > k)

\* MaybeImprecise::gt_eq
MaybeImpreciseGtEq(s, k, bld) ==
    IF s.kind = "Precise" THEN FromBool(Assume(s.v) >= k)
    ELSE LET x == s.v IN
         CASE x.op = "Equal" -> FromBool(x.n >= k)
           [] x.op \in {"GreaterThan", "GreaterThanOrEqual", "NotEqual"} -> "True"
           [] x.op \in {"LowerThan", "LowerThanOrEqual"} -> FromBool(x.n > k)

\* MaybeImprecise::lt
MaybeImpreciseLt(s, k, bld) ==
    IF s.kind = "Precise" THEN FromBool(Assume(s.v) < k)
    ELSE LET x == s.v IN
         CASE x.op = "GreaterThan" ->
                LET dif == UsizeSub(k, 1, bld) IN
                IF dif.ok THEN FromBool(x.n < dif.v) ELSE "Panic"
           [] x.op \in {"GreaterThanOrEqual", "Equal"} -> FromBool(x.n < k)
           [] x.op \in {"LowerThan", "LowerThanOrEqual", "NotEqual"} -> "True"

\* MaybeImprecise::lt_eq
MaybeImpreciseLtEq(s, k, bld) ==
    IF s.kind = "Precise" THEN FromBool(Assume(s.v) <= k)
    ELSE LET x == s.v IN
         CASE x.op = "Equal" -> FromBool(x.n <= k)
           [] x.op \in {"GreaterThan", "GreaterThanOrEqual"} -> FromBool(x.n < k)
           [] x.op \in {"LowerThan", "LowerThanOrEqual", "NotEqual"} -> "True"

\* MaybeImprecise::eq with the bound of `>m` taken as included
MaybeImpreciseEq_InclusiveGt(s, k, bld) ==
    IF s.kind = "Precise" THEN FromBool(k = Assume(s.v))
    ELSE LET x == s.v IN
         CASE x.op = "Equal" -> FromBool(k = x.n)
           [] x.op = "GreaterThan" -> FromBool(k >= x.n)
           [] x.op = "GreaterThanOrEqual" -> FromBool(k >= x.n)
           [] x.op = "LowerThan" -> FromBool(k < x.n)
           [] x.op = "LowerThanOrEqual" -> FromBool(k <= x.n)
           [] x.op = "NotEqual" -> FromBool(k # x.n)

\* MaybeImprecise::eq
MaybeImpreciseEq(s, k, bld) ==
    IF s.kind = "Precise" THEN FromBool(k = Assume(s.v))
    ELSE LET x == s.v IN
         CASE x.op = "Equal" -> FromBool(k = x.n)
           [] x.op = "GreaterThan" -> FromBool(k > x.n)
           [] x.op = "GreaterThanOrEqual" -> FromBool(k >= x.n)
           [] x.op = "LowerThan" -> FromBool(k < x.n)
           [] x.op = "LowerThanOrEqual" -> FromBool(k <= x.n)
           [] x.op = "NotEqual" -> FromBool(k # x.n)

\* MaybeImprecise::ne
MaybeImpreciseNe(s, k, bld) ==
    IF s.kind = "Precise" THEN FromBool(k # Assume(s.v))
    ELSE LET x == s.v IN
         CASE x.op = "Equal" -> FromBool(k # x.n)
           [] x.op \in {"GreaterThan", "GreaterThanOrEqual", "LowerThan",
                        "LowerThanOrEqual", "NotEqual"} -> "True"

\* impl Compare for Option<T>: an absent slot gives Void
OptionGt(o, k, bld) == IF IsNone(o) THEN "Void" ELSE MaybeImpreciseGt(o[1], k, bld)
OptionGtEq(o, k, bld) == IF IsNone(o) THEN "Void" ELSE MaybeImpreciseGtEq(o[1], k, bld)
OptionLt(o, k, bld) == IF IsNone(o) THEN "Void" ELSE MaybeImpreciseLt(o[1], k, bld)
OptionLtEq(o, k, bld) == IF IsNone(o) THEN "Void" ELSE MaybeImpreciseLtEq(o[1], k, bld)
OptionEq(o, k, bld) == IF IsNone(o) THEN "Void" ELSE MaybeImpreciseEq(o[1], k, bld)
OptionNe(o, k, bld) == IF IsNone(o) THEN "Void" ELSE MaybeImpreciseNe(o[1], k, bld)

\* Comparison::compare
ComparisonCompare(c, a, bld) ==
    CASE c.op = "GreaterThan" -> OptionGt(a, c.n, bld)
      [] c.op = "Equal" -> OptionEq(a, c.n, bld)
      [] c.op = "LowerThan" -> OptionLt(a, c.n, bld)
      [] c.op = "NotEqual" -> OptionNe(a, c.n, bld)
      [] c.op = "GreaterThanOrEqual" -> OptionGtEq(a, c.n, bld)
      [] c.op = "LowerThanOrEqual" -> OptionLtEq(a, c.n, bld)

-----------------------------------------------------------------------------
(* ImpreciseOrd: the comparator of the numeric sort *)

\* Ord::cmp on usize
UsizeCmp(x, y) == IF x < y THEN "Less" ELSE IF x > y THEN "Greater" ELSE "Equal"

\* impl ImpreciseOrd<Self> for Comparison
ComparisonImpreciseCmp(a, b) ==
    CASE a.op = "Equal"
         /\ b.op \in {"Equal", "GreaterThanOrEqual", "LowerThanOrEqual"} ->
            UsizeCmp(a.n, b.n)
      [] a.op = "GreaterThan" /\ b.op \in {"GreaterThan", "Equal", "NotEqual"} ->
            UsizeCmp(a.n, b.n)
      [] a.op = "GreaterThanOrEqual"
         /\ b.op \in {"GreaterThanOrEqual", "LowerThanOrEqual", "GreaterThan", "Equal"} ->
            UsizeCmp(a.n, b.n)
      [] a.op = "LowerThan" /\ b.op \in {"LowerThan", "Equal", "NotEqual"} ->
            Reverse(UsizeCmp(a.n, b.n))
      [] a.op = "LowerThanOrEqual"
         /\ b.op \in {"LowerThanOrEqual", "GreaterThanOrEqual", "LowerThan", "Equal"} ->
            Reverse(UsizeCmp(a.n, b.n))
      [] a.op = "NotEqual" /\ b.op = "Equal" -> "Less"
      [] a.op = "NotEqual" /\ b.op # "Equal" -> "Equal"
      [] OTHER -> "Less"

\* impl ImpreciseOrd<MaybeVar> for MaybeVar
MaybeVarImpreciseCmp(a, b) == UsizeCmp(Assume(a), Assume(b))

\* impl ImpreciseOrd<MaybeVar> for Comparison
ComparisonCmpMaybeVar(c, mv) == ComparisonImpreciseCmp(c, Cmp("Equal", Assume(mv)))

\* impl ImpreciseOrd<Comparison> for MaybeVar
MaybeVarCmpComparison(mv, c) == Reverse(ComparisonCmpMaybeVar(c, mv))

\* impl ImpreciseOrd<MaybeImprecise> for MaybeImprecise: the first arm serves
\* both mixed pairs and calls x.imprecise_cmp(y) with x the precise one
MaybeImpreciseCmp(a, b) ==
    CASE a.kind = "Precise" /\ b.kind = "Imprecise" -> MaybeVarCmpComparison(a.v, b.v)
      [] a.kind = "Imprecise" /\ b.kind = "Precise" -> MaybeVarCmpComparison(b.v, a.v)
      [] a.kind = "Precise" /\ b.kind = "Precise" -> MaybeVarImpreciseCmp(a.v, b.v)
      [] a.kind = "Imprecise" /\ b.kind = "Imprecise" -> ComparisonImpreciseCmp(a.v, b.v)

\* impl ImpreciseOrd<Option<T>> for Option<T>
imprecise_cmp(a, b) ==
    CASE IsSome(a) /\ IsSome(b) -> MaybeImpreciseCmp(a[1], b[1])
      [] IsSome(a) /\ IsNone(b) -> "Greater"
      [] IsNone(a) -> "Less"

-----------------------------------------------------------------------------
(* Cards, card identities, keywords *)

\* struct Keyword
Keyword(name, data) == [name |-> name, data |-> data]
\* enum KeywordData
KwCardId(id) == [tag |-> "CardId", id |-> id]
KwString(str) == [tag |-> "String", str |-> str]

NumberProperties == {"Cost", "Health", "Power", "Defense"}

\* impl Default for Card
DefaultCard ==
    [kind |-> "Card", name |-> <<>>, type |-> <<>>, description |-> <<>>,
     cost |-> Precise(Const(0)), health |-> Precise(Const(0)),
     defense |-> Precise(Const(0)), power |-> Precise(Const(0)),
     keywords |-> <<>>, kins |-> <<>>, functions |-> <<>>]

\* a CardId with no field populated
EmptyCardId ==
    [kind |-> "CardId", name |-> None, type |-> None, description |-> None,
     cost |-> None, health |-> None, defense |-> None, power |-> None,
     keywords |-> None, kins |-> None, functions |-> None]

command == <<"c", "o", "m", "m", "a", "n", "d">>

\* ReadProperties::get_type
get_type(c) == IF c.kind = "Card" THEN Some(c.type) ELSE c.type

\* the test both readers make before they hand out health, defense or power
TypeIsCommand(c) ==
    IF c.kind = "Card" THEN StrContains(c.type, command)
    ELSE IsSome(c.type) /\ StrContains(c.type[1], command)

\* the stored numeric field, as the reader of the record's kind returns it
StoredNum(c, property) ==
    LET f == CASE property = "Cost" -> c.cost
               [] property = "Health" -> c.health
               [] property = "Defense" -> c.defense
               [] property = "Power" -> c.power
    IN IF c.kind = "Card" THEN Some(f) ELSE f

\* get_num_property with the command test left out of the Power arm
get_num_property_PowerOfCommand(c, property) ==
    IF property \in {"Cost", "Power"} THEN StoredNum(c, property)
    ELSE IF TypeIsCommand(c) THEN None
    ELSE StoredNum(c, property)

\* ReadProperties::get_num_property (Card and CardId)
get_num_property(c, property) ==
    IF property = "Cost" THEN StoredNum(c, property)
    ELSE IF TypeIsCommand(c) THEN None
    ELSE StoredNum(c, property)

\* ReadProperties::get_str_property
get_text_property(c, property) ==
    IF c.kind = "Card"
    THEN Some(CASE property = "Name" -> c.name
                [] property = "Type" -> c.type
                [] property = "Description" -> c.description)
    ELSE CASE property = "Name" -> c.name
           [] property = "Type" -> c.type
           [] property = "Description" -> c.description

\* ReadProperties::get_vec_property
get_vec_property(c, property) ==
    IF c.kind = "Card"
    THEN Some(CASE property = "Functions" -> c.functions
                [] property = "Kins" -> c.kins)
    ELSE CASE property = "Functions" -> c.functions
           [] property = "Kins" -> c.kins

\* ReadProperties::get_keywords
get_keywords(c) == IF c.kind = "Card" THEN Some(c.keywords) ELSE c.keywords
\* ReadProperties::get_name
get_name(c) == IF c.kind = "Card" THEN Some(c.name) ELSE c.name
\* ReadProperties::get_description
get_description(c) == IF c.kind = "Card" THEN Some(c.description) ELSE c.description
\* ReadProperties::get_kins
get_kins(c) == IF c.kind = "Card" THEN Some(c.kins) ELSE c.kins

-----------------------------------------------------------------------------
(* Comparing a card's numeric property with a usize: the NumberComparison  *)
(* arm of matches_query, comparison.compare(&card.get_num_property(field)), *)
(* taken one call at a time.                                                *)

creature == <<"c", "r", "e", "a", "t", "u", "r", "e">>
extended_command == <<"e", "x", "t", "e", "n", "d", "e", "d", " ">> \o command
Command_capital == <<"C", "o", "m", "m", "a", "n", "d">>

NumTypes == {creature, command, extended_command, Command_capital}

\* the values a numeric slot of a card can hold
SlotValues ==
    {Precise(Const(n)) : n \in Usize}
    \cup {Precise(Var("X"))}
    \cup {Imprecise(Cmp(op, n)) : op \in ComparisonOps, n \in Usize}

\* the card of the numbers specification: a default card of the given type
\* that stores the number in the given property
NumCard(ty, property, num) ==
    LET c == [DefaultCard EXCEPT !.type = ty] IN
    CASE property = "Cost" -> [c EXCEPT !.cost = num]
      [] property = "Health" -> [c EXCEPT !.health = num]
      [] property = "Defense" -> [c EXCEPT !.defense = num]
      [] property = "Power" -> [c EXCEPT !.power = num]

\* the Compare method Comparison::compare dispatches to
MethodOf(op) ==
    CASE op = "GreaterThan" -> "gt" [] op = "GreaterThanOrEqual" -> "gt_eq"
      [] op = "LowerThan" -> "lt" [] op = "LowerThanOrEqual" -> "lt_eq"
      [] op = "Equal" -> "eq" [] op = "NotEqual" -> "ne"

EmptyCache == <<>>
EmptyQuery == [name |-> <<>>, restrictions |-> <<>>, sort |-> [by |-> "None"]]

SearchIdle ==
    /\ cards = <<>>
    /\ query = EmptyQuery
    /\ sim = <<>>
    /\ pos = 0
    /\ cache = EmptyCache
    /\ verdicts = <<>>
    /\ results = <<>>
    /\ pc = "idle"

OrdIdle ==
    /\ oa = None
    /\ ob = None
    /\ oc = None
    /\ ores = None

ParseIdle ==
    /\ pin = <<>>
    /\ ppos = 0
    /\ tk = <<>>
    /\ pout = None

KinIdle ==
    /\ ka = None
    /\ kb = None
    /\ kres = None

SerdeIdle ==
    /\ sval = None
    /\ swire = None
    /\ sback = None

IdIdle ==
    /\ gid = None
    /\ gcard = None
    /\ gout = None

InitCompare ==
    /\ build \in Builds
    /\ nprop \in NumberProperties
    /\ \E ty \in NumTypes, num \in SlotValues : ncard = NumCard(ty, nprop, num)
    /\ nk \in Usize
    /\ nslot = None
    /\ ncalled = "unread"
    /\ noutcome = "none"
    /\ SearchIdle
    /\ OrdIdle
    /\ ParseIdle
    /\ KinIdle
    /\ SerdeIdle
    /\ IdIdle

\* card.get_num_property(field)
ReadNum ==
    /\ ncalled = "unread"
    /\ nslot' = get_num_property(ncard, nprop)
    /\ ncalled' = "none"
    /\ UNCHANGED <<build, idVars, kinVars, serdeVars, ncard, nprop, nk, noutcome, searchVars, ordVars, parseVars>>

\* comparison.compare(&slot), for a comparison with the number nk
CompareNum ==
    /\ ncalled = "none"
    /\ \E op \in ComparisonOps :
        /\ ncalled' = MethodOf(op)
        /\ noutcome' = ComparisonCompare(Cmp(op, nk), nslot, build)
    /\ UNCHANGED <<build, idVars, kinVars, serdeVars, ncard, nprop, nslot, nk, searchVars, ordVars, parseVars>>

NextCompare == ReadNum \/ CompareNum

SpecCompare == InitCompare /\ [][NextCompare]_vars

-----------------------------------------------------------------------------
(* Queries *)

\* enum TextComparison (HasMatch, which needs the regex engine, is left out)
Contains(text) == [c |-> "Contains", text |-> text]
EqualTo(text) == [c |-> "EqualTo", text |-> text]
HasMatch(regex) == [c |-> "HasMatch", text |-> regex]

\* enum QueryRestriction
Fuzzy(text) == [r |-> "Fuzzy", text |-> text]
Devours(q) == [r |-> "Devours", q |-> q]
DevouredBy(q) == [r |-> "DevouredBy", q |-> q]
NumberComparison(property, comparison) ==
    [r |-> "NumberComparison", property |-> property, comparison |-> comparison]
TextComparison(property, tc) ==
    [r |-> "TextComparison", property |-> property, cmp |-> tc]
Has(property, tc) == [r |-> "Has", property |-> property, cmp |-> tc]
HasKw(tc) == [r |-> "HasKw", cmp |-> tc]
Not(q) == [r |-> "Not", q |-> q]
LenientNot(q) == [r |-> "LenientNot", q |-> q]
Group(q) == [r |-> "Group", q |-> q]
Or(a, b) == [r |-> "Or", a |-> a, b |-> b]
Xor(a, b) == [r |-> "Xor", a |-> a, b |-> b]

\* enum Sort
SortNone == [by |-> "None"]
SortFuzzy == [by |-> "Fuzzy"]
SortAlphabet(property, order) ==
    [by |-> "Alphabet", property |-> property, order |-> order]
SortNumeric(property, order) ==
    [by |-> "Numeric", property |-> property, order |-> order]

\* struct Query
Query(name, restrictions, sort) ==
    [name |-> name, restrictions |-> restrictions, sort |-> sort]

\* a subquery, as the parser and the devoured-by arm build them
SubQuery(restrictions) == Query(<<>>, restrictions, SortNone)

-----------------------------------------------------------------------------
(* Display for Query and QueryRestriction: the key of the cache.  A        *)
(* rendering is a sequence of pieces; a literal piece of the format string *)
(* is one string, an embedded text contributes its characters.  Two        *)
(* renderings are the same sequence exactly when the strings are equal, as *)
(* long as the texts hold no quote, bracket or comma.                      *)

\* Display for Comparison
RenderComparison(c) ==
    (CASE c.op = "GreaterThan" -> <<"> ">>
       [] c.op = "GreaterThanOrEqual" -> <<">= ">>
       [] c.op = "LowerThanOrEqual" -> <<"<= ">>
       [] c.op = "Equal" -> <<"= ">>
       [] c.op = "LowerThan" -> <<"< ">>
       [] c.op = "NotEqual" -> <<"!= ">>) \o NatToText(c.n)

RECURSIVE RenderQuery(_)
RECURSIVE RenderRestriction(_)
RECURSIVE RenderJoined(_, _)

\* Display for QueryRestriction
RenderRestriction(res) ==
    CASE res.r = "DevouredBy" ->
            <<"which are devoured by [">> \o RenderQuery(res.q) \o <<"]">>
      [] res.r = "Fuzzy" -> <<"with \"">> \o res.text \o <<"\" written on them">>
      [] res.r = "Devours" -> <<"that devour [">> \o RenderQuery(res.q) \o <<"]">>
      [] res.r = "NumberComparison" ->
            <<"with ", res.property, " ">> \o RenderComparison(res.comparison)
      [] res.r = "TextComparison" ->
            IF res.cmp.c = "Contains"
            THEN <<"whose ", res.property, " contains \"">> \o res.cmp.text \o <<"\"">>
            ELSE <<"whose ", res.property, " is equal to \"">> \o res.cmp.text \o <<"\"">>
      [] res.r = "Has" ->
            IF res.property = "Functions"
            THEN IF res.cmp.c = "Contains"
                 THEN <<"which can be used to \"">> \o res.cmp.text \o <<"\"">>
                 ELSE <<"which can be used to \"">> \o res.cmp.text \o <<"\"">>
            ELSE IF res.cmp.c = "Contains"
                 THEN <<"whose ", res.property, " have \"">> \o res.cmp.text
                      \o <<"\" among them">>
                 ELSE <<"whose ", res.property, " have exactly \"">> \o res.cmp.text
                      \o <<"\" among them">>
      [] res.r = "HasKw" ->
            IF res.cmp.c = "Contains"
            THEN <<"with a \"">> \o res.cmp.text \o <<"\" keyword">>
            ELSE <<"with exactly a \"">> \o res.cmp.text \o <<"\" keyword">>
      [] res.r = "Not" -> <<"that aren't [">> \o RenderQuery(res.q) \o <<"]">>
      [] res.r = "LenientNot" ->
            <<"that aren't [">> \o RenderQuery(res.q)
            \o <<"], counting lacks of a property as a non-match">>
      [] res.r = "Group" -> <<"which are [">> \o RenderQuery(res.q) \o <<"]">>
      [] res.r = "Or" ->
            <<"which are [">> \o RenderQuery(res.a) \o <<"] or [">>
            \o RenderQuery(res.b) \o <<"]">>
      [] res.r = "Xor" ->
            <<"which are [">> \o RenderQuery(res.a) \o <<"] xor [">>
            \o RenderQuery(res.b) \o <<"] but not both">>

\* the text a query's sort adds to its text properties (None when it adds none)
RenderSort(q) ==
    CASE q.sort.by = "None" -> None
      [] q.sort.by = "Fuzzy" /\ q.name # <<>> -> Some(<<"sorted by fuzzy match">>)
      [] q.sort.by = "Fuzzy" -> Some(<<"sorted by Name in Ascending order">>)
      [] q.sort.by = "Alphabet" ->
            Some(<<"sorted by ", q.sort.property, " in ", q.sort.order, " order">>)
      [] q.sort.by = "Numeric" ->
            Some(<<"sorted by ", q.sort.property, " in ", q.sort.order, " order">>)

\* text_properties.into_iter().reduce(|acc, el| acc + ", " + el), from the i-th on
RenderJoined(props, i) ==
    IF i > Len(props) THEN <<>>
    ELSE (IF i = 1 THEN <<>> ELSE <<", ">>) \o props[i] \o RenderJoined(props, i + 1)

\* Display for Query
RenderQuery(q) ==
    LET rendered == [i \in 1 .. Len(q.restrictions) |->
                        RenderRestriction(q.restrictions[i])]
        props == rendered \o RenderSort(q)
    IN IF props = <<>> THEN <<"Cards">>
       ELSE <<"Cards ">> \o RenderJoined(props, 1)

-----------------------------------------------------------------------------
(* Evaluating a query on a card.  Cards are referred to by their index in  *)
(* the catalogue; the cache maps a rendered subquery to the list of cards  *)
(* its devourers devour.  An evaluation yields [val, cache]: the value, or *)
(* "Panic" when an arithmetic overflow aborts it, and the cache it leaves. *)

\* an insert that drops what the cache held
CacheInsert_Forgets(ch, key, value) == [k \in {key} |-> value]

\* cache.borrow_mut().insert(key, devoured_cards.clone())
CacheInsert(ch, key, value) ==
    [k \in (DOMAIN ch) \cup {key} |-> IF k = key THEN value ELSE ch[k]]

\* search::fuzzy
fuzzy(card, text) ==
    \/ IsSome(get_description(card))
       /\ StrContains(clean_ascii(get_description(card)[1]), clean_ascii(text))
    \/ IsSome(get_name(card))
       /\ StrContains(clean_ascii(get_name(card)[1]), clean_ascii(text))
    \/ IsSome(get_type(card))
       /\ StrContains(clean_ascii(get_type(card)[1]), clean_ascii(text))
    \/ IsSome(get_kins(card))
       /\ \E i \in 1 .. Len(get_kins(card)[1]) :
            StrContains(clean_ascii(get_kins(card)[1][i]), clean_ascii(text))
    \/ IsSome(get_keywords(card))
       /\ \E i \in 1 .. Len(get_keywords(card)[1]) :
            StrContains(clean_ascii(get_keywords(card)[1][i].name), clean_ascii(text))

\* the elements of an optional list
ElementsOf(vec) ==
    IF IsNone(vec) THEN {} ELSE {vec[1][i] : i \in 1 .. Len(vec[1])}

\* search::match_in_vec; the condition is a function on the elements
match_in_vec(vec, cond) ==
    IF IsNone(vec) THEN "Void"
    ELSE FromBool(\E i \in 1 .. Len(vec[1]) : cond[vec[1][i]])

\* the comparison of a text with the text of a TextComparison, lowercased
LowercaseMatch(text, tc) ==
    IF tc.c = "Contains" THEN StrContains(ToLowercase(text), ToLowercase(tc.text))
    ELSE ToLowercase(text) = ToLowercase(tc.text)

\* the comparison of a text with the text of a TextComparison, cleaned
CleanMatch(text, tc) ==
    IF tc.c = "Contains" THEN StrContains(clean_ascii(text), clean_ascii(tc.text))
    ELSE clean_ascii(text) = clean_ascii(tc.text)

\* one numeric field of a CardId as a restriction
NumAsQuery(property, slot) ==
    IF IsSome(slot)
    THEN <<NumberComparison(property, Cmp("Equal", Assume(slot[1].v)))>>
    ELSE <<>>

\* CardId::get_as_query
get_as_query(id) ==
    (IF IsSome(id.name) THEN <<TextComparison("Name", Contains(id.name[1]))>> ELSE <<>>)
    \o (IF IsSome(id.kins)
        THEN [i \in 1 .. Len(id.kins[1]) |-> Has("Kins", Contains(id.kins[1][i]))]
        ELSE <<>>)
    \o (IF IsSome(id.keywords)
        THEN [i \in 1 .. Len(id.keywords[1]) |-> HasKw(Contains(id.keywords[1][i].name))]
        ELSE <<>>)
    \o NumAsQuery("Cost", id.cost)
    \o NumAsQuery("Health", id.health)
    \o NumAsQuery("Power", id.power)
    \o NumAsQuery("Defense", id.defense)

devours == <<"d", "e", "v", "o", "u", "r", "s">>

\* x.iter().find(|x| x.name == "devours"): the keyword found, or None
RECURSIVE FindDevours(_, _)
FindDevours(kws, i) ==
    IF i > Len(kws) THEN None
    ELSE IF kws[i].name = devours THEN Some(kws[i])
    ELSE FindDevours(kws, i + 1)

\* a devourer whose devours keyword is never read
DevourerQuery_NoIdentity(devourer) == <<>>

\* the query a devourer contributes: the identity its first devours keyword carries
DevourerQuery(devourer) ==
    LET found == IF IsSome(get_keywords(devourer))
                 THEN FindDevours(get_keywords(devourer)[1], 1) ELSE None
    IN IF IsSome(found) /\ IsSome(found[1].data) /\ found[1].data[1].tag = "CardId"
       THEN <<SubQuery(get_as_query(found[1].data[1].id))>>
       ELSE <<>>

\* the queries of the devourers, in catalogue order
RECURSIVE DevourerQueries(_, _, _)
DevourerQueries(devourers, cs, i) ==
    IF i > Len(devourers) THEN <<>>
    ELSE DevourerQuery(cs[devourers[i]]) \o DevourerQueries(devourers, cs, i + 1)

\* queries.into_iter().reduce(|first, second| Query {Or(first, second)}), from
\* the accumulator acc and the i-th query on
RECURSIVE ReduceOr(_, _, _)
ReduceOr(acc, queries, i) ==
    IF i > Len(queries) THEN acc
    ELSE ReduceOr(SubQuery(<<Or(acc, queries[i])>>), queries, i + 1)

\* the weights of weighted_compare, in tenths: 3., 1.8, 1.6 and 1.
NameWeight == 30
TypeWeight == 18
DescriptionWeight == 16
KeywordWeight == 10

\* the levels fuzzy_compare can answer, from no similarity to identity
MaxSimilarity == 1
Similarities == 0 .. MaxSimilarity

\* fuzzy_compare(text, b) for the name b of the query at hand: the function
\* belongs to the crate rust_fuzzy_search; all the program relies on is that
\* it answers the same for the same text
fuzzy_compare(text) == sim[text]

MaxOf(x, y) == IF x >= y THEN x ELSE y

RECURSIVE MaxKeywordSimilarity(_, _)
MaxKeywordSimilarity(kws, i) ==
    IF i > Len(kws) THEN 0
    ELSE MaxOf(fuzzy_compare(ToLowercase(kws[i].name)), MaxKeywordSimilarity(kws, i + 1))

\* the texts of a card that weighted_compare hands to fuzzy_compare
SimilarityTexts(c) ==
    (IF get_name(c) = None THEN {} ELSE {get_name(c)[1], ToLowercase(get_name(c)[1])})
    \cup (IF get_type(c) = None THEN {} ELSE {ToLowercase(get_type(c)[1])})
    \cup (IF get_description(c) = None THEN {} ELSE {ToLowercase(get_description(c)[1])})
    \cup (IF get_keywords(c) = None THEN {}
          ELSE {ToLowercase(get_keywords(c)[1][i].name) : i \in DOMAIN get_keywords(c)[1]})

\* weighted_compare(card, query.name), in tenths of a similarity level; the
\* cards of the model carry no kin, so the kin term adds nothing
weighted_compare(c) ==
    (IF get_name(c) = None THEN 0
     ELSE NameWeight * MaxOf(fuzzy_compare(get_name(c)[1]),
                             fuzzy_compare(ToLowercase(get_name(c)[1]))))
    + (IF get_type(c) = None THEN 0
       ELSE TypeWeight * fuzzy_compare(ToLowercase(get_type(c)[1])))
    + (IF get_description(c) = None THEN 0
       ELSE DescriptionWeight * fuzzy_compare(ToLowercase(get_description(c)[1])))
    + (IF get_keywords(c) = None THEN 0
       ELSE KeywordWeight * MaxKeywordSimilarity(get_keywords(c)[1], 1))

\* the comparator search hands to sort_by
SortCompare(q, cs, a, b) ==
    CASE q.sort.by = "Fuzzy" /\ q.name # <<>> ->
            UsizeCmp(weighted_compare(cs[b]), weighted_compare(cs[a]))
      [] q.sort.by = "Fuzzy" /\ q.name = <<>> ->
            OptStrCmp(get_name(cs[a]), get_name(cs[b]))
      [] q.sort.by = "Numeric" /\ q.sort.order = "Ascending" ->
            imprecise_cmp(get_num_property(cs[a], q.sort.property),
                          get_num_property(cs[b], q.sort.property))
      [] q.sort.by = "Numeric" /\ q.sort.order = "Descending" ->
            Reverse(imprecise_cmp(get_num_property(cs[a], q.sort.property),
                                  get_num_property(cs[b], q.sort.property)))
      [] q.sort.by = "Alphabet" /\ q.sort.order = "Ascending" ->
            OptStrCmp(get_text_property(cs[a], q.sort.property),
                      get_text_property(cs[b], q.sort.property))
      [] q.sort.by = "Alphabet" /\ q.sort.order = "Descending" ->
            Reverse(OptStrCmp(get_text_property(cs[a], q.sort.property),
                              get_text_property(cs[b], q.sort.property)))

\* slice::sort_by on a short slice is an insertion sort: an element moves
\* in front of its predecessor while compare(element, predecessor) is Less
RECURSIVE InsertStable(_, _, _, _)
InsertStable(sorted, x, q, cs) ==
    IF sorted = <<>> THEN <<x>>
    ELSE IF SortCompare(q, cs, x, sorted[Len(sorted)]) = "Less"
         THEN Append(InsertStable(SubSeq(sorted, 1, Len(sorted) - 1), x, q, cs),
                     sorted[Len(sorted)])
         ELSE Append(sorted, x)

RECURSIVE sort_by(_, _, _)
sort_by(list, q, cs) ==
    IF list = <<>> THEN <<>>
    ELSE InsertStable(sort_by(SubSeq(list, 1, Len(list) - 1), q, cs),
                      list[Len(list)], q, cs)

\* the match on query.sort at the end of search
SortResults(list, q, cs) ==
    IF q.sort.by = "None" THEN list ELSE sort_by(list, q, cs)

RECURSIVE matches_query(_, _, _, _, _)
RECURSIVE MatchRestrictions(_, _, _, _, _, _, _)
RECURSIVE MatchRestriction(_, _, _, _, _, _)
RECURSIVE DevoursAny(_, _, _, _, _, _)
RECURSIVE FilterCards(_, _, _, _, _, _)
RECURSIVE DevouredCards(_, _, _, _, _)
RECURSIVE search(_, _, _)

Panicked == [val |-> "Panic", cache |-> EmptyCache]

\* keywords.iter().any(..) of the Devours arm: it stops at the first devours
\* keyword whose identity matches the query; yields [val, cache], val being
\* "True", "False" or "Panic"
DevoursAny(kws, i, q, cs, ch, bld) ==
    IF i > Len(kws) THEN [val |-> "False", cache |-> ch]
    ELSE IF kws[i].name = devours /\ IsSome(kws[i].data)
            /\ kws[i].data[1].tag = "CardId"
         THEN LET m == matches_query(kws[i].data[1].id, q, cs, ch, bld) IN
              IF m.val = "Panic" THEN Panicked
              ELSE IF m.val = "True" THEN [val |-> "True", cache |-> m.cache]
              ELSE DevoursAny(kws, i + 1, q, cs, m.cache, bld)
         ELSE DevoursAny(kws, i + 1, q, cs, ch, bld)

\* cards.into_iter().filter(|card| matches_query(card, q, cards, cache) == True)
\* from the i-th card on, kept holding the cards already kept; yields
\* [ok, list, cache]
FilterCards(q, cs, i, kept, ch, bld) ==
    IF i > Len(cs) THEN [ok |-> TRUE, list |-> kept, cache |-> ch]
    ELSE LET m == matches_query(cs[i], q, cs, ch, bld) IN
         IF m.val = "Panic" THEN [ok |-> FALSE, list |-> <<>>, cache |-> EmptyCache]
         ELSE FilterCards(q, cs, i + 1,
                          IF m.val = "True" THEN Append(kept, i) ELSE kept,
                          m.cache, bld)

\* search::search as the DevouredBy arm calls it: a cache of its own, the
\* filter, the sort; yields [ok, list]
search(q, cs, bld) ==
    LET f == FilterCards(q, cs, 1, <<>>, EmptyCache, bld) IN
    IF f.ok THEN [ok |-> TRUE, list |-> SortResults(f.list, q, cs)]
    ELSE [ok |-> FALSE, list |-> <<>>]

\* the devoured cards of the DevouredBy arm: the cached list for the rendered
\* subquery, or else the search for what its devourers devour, which is then
\* cached; yields [ok, list, cache]
DevouredCards(qry, devoured_by, cs, ch, bld) ==
    LET key == RenderQuery(devoured_by) IN
    IF key \in DOMAIN ch THEN [ok |-> TRUE, list |-> ch[key], cache |-> ch]
    ELSE LET devourers == FilterCards(devoured_by, cs, 1, <<>>, ch, bld) IN
         IF ~devourers.ok THEN [ok |-> FALSE, list |-> <<>>, cache |-> EmptyCache]
         ELSE LET queries == DevourerQueries(devourers.list, cs, 1)
                  reduced == IF queries = <<>> THEN SubQuery(<<>>)
                             ELSE ReduceOr(queries[1], queries, 2)
                  devourees_query ==
                      Query(qry.name, reduced.restrictions, qry.sort)
                  devoured_cards == search(devourees_query, cs, bld)
              IN IF ~devoured_cards.ok
                 THEN [ok |-> FALSE, list |-> <<>>, cache |-> EmptyCache]
                 ELSE [ok |-> TRUE, list |-> devoured_cards.list,
                       cache |-> CacheInsert(devourers.cache, key,
                                             devoured_cards.list)]

\* one arm of the match in matches_query; yields [val, cache]
MatchRestriction(card, res, qry, cs, ch, bld) ==
    CASE res.r = "TextComparison" ->
            LET property == get_text_property(card, res.property) IN
            [val |-> IF IsNone(property) THEN "Void"
                     ELSE FromBool(CleanMatch(property[1], res.cmp)),
             cache |-> ch]
      [] res.r = "Xor" ->
            LET res1 == matches_query(card, res.a, cs, ch, bld) IN
            IF res1.val = "Panic" THEN Panicked
            ELSE LET res2 == matches_query(card, res.b, cs, res1.cache, bld) IN
                 IF res2.val = "Panic" THEN Panicked
                 ELSE [val |-> TernaryXor(res1.val, res2.val), cache |-> res2.cache]
      [] res.r = "Or" ->
            LET res1 == matches_query(card, res.a, cs, ch, bld) IN
            IF res1.val = "Panic" THEN Panicked
            ELSE LET res2 == matches_query(card, res.b, cs, res1.cache, bld) IN
                 IF res2.val = "Panic" THEN Panicked
                 ELSE [val |-> TernaryOr(res1.val, res2.val), cache |-> res2.cache]
      [] res.r = "Group" -> matches_query(card, res.q, cs, ch, bld)
      [] res.r = "Fuzzy" -> [val |-> FromBool(fuzzy(card, res.text)), cache |-> ch]
      [] res.r = "NumberComparison" ->
            [val |-> ComparisonCompare(res.comparison,
                                       get_num_property(card, res.property), bld),
             cache |-> ch]
      [] res.r = "Has" ->
            LET vec == get_vec_property(card, res.property) IN
            [val |-> match_in_vec(vec, [text \in ElementsOf(vec) |->
                                           LowercaseMatch(text, res.cmp)]),
             cache |-> ch]
      [] res.r = "HasKw" ->
            LET vec == get_keywords(card) IN
            [val |-> match_in_vec(vec, [keyword \in ElementsOf(vec) |->
                                           LowercaseMatch(keyword.name, res.cmp)]),
             cache |-> ch]
      [] res.r = "Not" ->
            LET m == matches_query(card, res.q, cs, ch, bld) IN
            IF m.val = "Panic" THEN Panicked
            ELSE [val |-> TernaryNot(m.val), cache |-> m.cache]
      [] res.r = "LenientNot" ->
            LET m == matches_query(card, res.q, cs, ch, bld) IN
            IF m.val = "Panic" THEN Panicked
            ELSE [val |-> IF m.val = "True" THEN "False" ELSE "True",
                  cache |-> m.cache]
      [] res.r = "Devours" ->
            IF IsNone(get_keywords(card)) THEN [val |-> "Void", cache |-> ch]
            ELSE DevoursAny(get_keywords(card)[1], 1, res.q, cs, ch, bld)
      [] res.r = "DevouredBy" ->
            LET d == DevouredCards(qry, res.q, cs, ch, bld) IN
            IF ~d.ok THEN Panicked
            ELSE [val |-> FromBool(\E x \in 1 .. Len(d.list) :
                                      get_name(cs[d.list[x]]) = get_name(card)),
                  cache |-> d.cache]

\* the loop of matches_query from the i-th restriction on, filtered holding
\* the conjunction so far
MatchRestrictions(card, qry, i, filtered, cs, ch, bld) ==
    IF i > Len(qry.restrictions) THEN [val |-> filtered, cache |-> ch]
    ELSE LET m == MatchRestriction(card, qry.restrictions[i], qry, cs, ch, bld) IN
         IF m.val = "Panic" THEN Panicked
         ELSE MatchRestrictions(card, qry, i + 1, TernaryAnd(filtered, m.val),
                                cs, m.cache, bld)

\* search::matches_query
matches_query(card, qry, cs, ch, bld) ==
    MatchRestrictions(card, qry, 1, "True", cs, ch, bld)

-----------------------------------------------------------------------------
(* Searching a catalogue: search::search, one card of the filter at a time, *)
(* then the sort.                                                           *)

infected_fly == <<"i", "n", "f", "e", "c", "t", "e", "d", " ", "f", "l", "y">>
Infected_Fly == <<"I", "n", "f", "e", "c", "t", "e", "d", " ", "F", "l", "y">>
Infected_Host == <<"I", "n", "f", "e", "c", "t", "e", "d", " ", "H", "o", "s", "t">>
Brood_name == <<"B", "r", "o", "o", "d">>
Hex_name == <<"H", "e", "x">>
infected_host == <<"i", "n", "f", "e", "c", "t", "e", "d", " ", "h", "o", "s", "t">>
fly == <<"f", "l", "y">>
hex == <<"h", "e", "x">>

\* a devours keyword that carries the identity of the cards with that name
DevoursNamed(name) ==
    Keyword(devours, Some(KwCardId([EmptyCardId EXCEPT !.name = Some(name)])))

\* the two cards of the devour fixture
InfectedFly ==
    [DefaultCard EXCEPT !.name = Infected_Fly, !.type = creature,
                        !.cost = Precise(Const(2))]
InfectedHost ==
    [DefaultCard EXCEPT !.name = Infected_Host, !.type = creature,
                        !.cost = Precise(Const(3)),
                        !.keywords = <<DevoursNamed(Infected_Fly)>>]
\* a creature of imprecise cost and a command that devour each other
Brood ==
    [DefaultCard EXCEPT !.name = Brood_name, !.type = creature,
                        !.cost = Imprecise(Cmp("GreaterThan", 2)),
                        !.functions = <<<<"a", "b">>>>,
                        !.keywords = <<DevoursNamed(Hex_name)>>]
Hex ==
    [DefaultCard EXCEPT !.name = Hex_name, !.type = command,
                        !.cost = Precise(Const(4)),
                        !.functions = <<<<"a">>>>,
                        !.keywords = <<DevoursNamed(Brood_name)>>]

CardPool == {InfectedFly, InfectedHost, Brood, Hex}

RECURSIVE SeqsUpTo(_, _)
SeqsUpTo(S, n) ==
    IF n = 0 THEN {<<>>}
    ELSE LET shorter == SeqsUpTo(S, n - 1) IN
         shorter \cup {Append(sq, x) : sq \in shorter, x \in S}

Catalogues == SeqsUpTo(CardPool, MaxCards)

NameFly == TextComparison("Name", Contains(infected_fly))
NameHost == TextComparison("Name", Contains(infected_host))
NameHex == TextComparison("Name", EqualTo(hex))
TypeCommand == TextComparison("Type", Contains(command))
CostGt3 == NumberComparison("Cost", Cmp("GreaterThan", 3))
HealthEq0 == NumberComparison("Health", Cmp("Equal", 0))
CostLt0 == NumberComparison("Cost", Cmp("LowerThan", 0))
FnContainsA == Has("Functions", Contains(<<"a">>))
FnEqualsA == Has("Functions", EqualTo(<<"a">>))
KwDevours == HasKw(Contains(devours))
FuzzyFly == Fuzzy(fly)

Atoms == {NameFly, NameHost, NameHex, TypeCommand, CostGt3, HealthEq0, CostLt0,
          FnContainsA, FnEqualsA, KwDevours, FuzzyFly}

\* the restrictions that wrap one subquery
Wrapped(q) == {Not(q), LenientNot(q), Group(q), Devours(q), DevouredBy(q)}

\* the subqueries the two-sided restrictions are built from
Operands ==
    {SubQuery(<<r>>) : r \in {NameFly, HealthEq0,
                               DevouredBy(SubQuery(<<FnContainsA>>)),
                               DevouredBy(SubQuery(<<FnEqualsA>>))}}

\* the restrictions that are paired in one query
Paired == {NameFly, HealthEq0, CostGt3,
           DevouredBy(SubQuery(<<FnContainsA>>)),
           DevouredBy(SubQuery(<<FnEqualsA>>))}

Nested ==
    {DevouredBy(SubQuery(<<DevouredBy(SubQuery(<<FnContainsA>>))>>)),
     DevouredBy(SubQuery(<<Devours(SubQuery(<<NameFly>>))>>)),
     Devours(SubQuery(<<DevouredBy(SubQuery(<<FnEqualsA>>))>>)),
     Not(SubQuery(<<Or(SubQuery(<<HealthEq0>>), SubQuery(<<NameFly>>))>>)),
     Or(SubQuery(<<Devours(SubQuery(<<DevouredBy(SubQuery(<<FnContainsA>>))>>))>>),
        SubQuery(<<DevouredBy(SubQuery(<<FnEqualsA>>))>>))}

RestrictionLists ==
    {<<>>}
    \cup {<<r>> : r \in Atoms}
    \cup {<<w>> : w \in UNION {Wrapped(SubQuery(<<r>>)) : r \in Atoms}}
    \cup {<<Or(a, b)>> : a \in Operands, b \in Operands}
    \cup {<<Xor(a, b)>> : a \in Operands, b \in Operands}
    \cup {<<r1, r2>> : r1 \in Paired, r2 \in Paired}
    \cup {<<r>> : r \in Nested}

Sorts == {SortNone, SortFuzzy}

Queries == {Query(<<>>, rs, so) : rs \in RestrictionLists, so \in Sorts}

NumIdle ==
    /\ ncard = DefaultCard
    /\ nprop = "Cost"
    /\ nslot = None
    /\ nk = 0
    /\ ncalled = "idle"
    /\ noutcome = "none"

InitSearch ==
    /\ build \in Builds
    /\ cards \in Catalogues
    /\ query \in Queries
    /\ sim = <<>>
    /\ pos = 0
    /\ cache = EmptyCache
    /\ verdicts = <<>>
    /\ results = <<>>
    /\ pc = "filter"
    /\ NumIdle
    /\ OrdIdle
    /\ ParseIdle
    /\ KinIdle
    /\ SerdeIdle
    /\ IdIdle

\* the filter closure on the next card: matches_query(card, query, cards, cache)
Verdict == matches_query(cards[pos + 1], query, cards, cache, build)

\* the filter keeps the card exactly when its verdict is True
SearchFilter ==
    /\ pc = "filter"
    /\ pos < Len(cards)
    /\ LET m == Verdict IN
        /\ m.val # "Panic"
        /\ verdicts' = Append(verdicts, m.val)
        /\ results' = IF m.val = "True" THEN Append(results, pos + 1) ELSE results
        /\ cache' = m.cache
    /\ pos' = pos + 1
    /\ UNCHANGED <<build, idVars, kinVars, serdeVars, numVars, ordVars, parseVars, cards, query, sim, pc>>

\* an overflow in the evaluation unwinds the search
SearchPanic ==
    /\ pc = "filter"
    /\ pos < Len(cards)
    /\ Verdict.val = "Panic"
    /\ pc' = "panicked"
    /\ UNCHANGED <<build, idVars, kinVars, serdeVars, numVars, ordVars, parseVars, cards, query, sim, pos, cache, verdicts, results>>

\* collect(), then the match on query.sort; search returns the results
SearchSort ==
    /\ pc = "filter"
    /\ pos = Len(cards)
    /\ results' = SortResults(results, query, cards)
    /\ pc' = "done"
    /\ UNCHANGED <<build, idVars, kinVars, serdeVars, numVars, ordVars, parseVars, cards, query, sim, pos, cache, verdicts>>

NextSearch == SearchFilter \/ SearchPanic \/ SearchSort

SpecSearch == InitSearch /\ [][NextSearch]_vars

-----------------------------------------------------------------------------
(* The comparator of the numeric sort on three slots: every pair is handed *)
(* to imprecise_cmp, as sort_by may do with three result cards.            *)

\* the numbers the compared slots are made of
MaxOrdNumber == 2
OrdNumbers == 0 .. MaxOrdNumber

\* what get_num_property can return
OrdSlots ==
    {None}
    \cup {Some(Precise(Const(n))) : n \in OrdNumbers}
    \cup {Some(Precise(Var("X")))}
    \cup {Some(Imprecise(Cmp(op, n))) : op \in ComparisonOps, n \in OrdNumbers}

OrdPairs == {"a", "b", "c"} \X {"a", "b", "c"}

InitOrd ==
    /\ build \in Builds
    /\ oa \in OrdSlots
    /\ ob \in OrdSlots
    /\ oc \in OrdSlots
    /\ ores = None
    /\ NumIdle
    /\ SearchIdle
    /\ ParseIdle
    /\ KinIdle
    /\ SerdeIdle
    /\ IdIdle

OrdSlot(x) == CASE x = "a" -> oa [] x = "b" -> ob [] x = "c" -> oc

\* ImpreciseOrd::imprecise_cmp(&x, &y) for every pair of the three slots
CompareOrd ==
    /\ ores = None
    /\ ores' = Some([p \in OrdPairs |-> imprecise_cmp(OrdSlot(p[1]), OrdSlot(p[2]))])
    /\ UNCHANGED <<build, idVars, kinVars, serdeVars, numVars, searchVars, parseVars, oa, ob, oc>>

NextOrd == CompareOrd

SpecOrd == InitOrd /\ [][NextOrd]_vars

-----------------------------------------------------------------------------
(* The sort step of search on catalogues whose cards share sort keys: the  *)
(* same filter and sort actions as above, on queries that only sort.       *)

ant == <<"a", "n", "t">>
bat == <<"b", "a", "t">>
curse == <<"c", "u", "r", "s", "e">>
doom == <<"d", "o", "o", "m">>

\* two creatures of the same cost and two commands, which have no health
SortAnt == [DefaultCard EXCEPT !.name = ant, !.type = creature,
                               !.cost = Precise(Const(1))]
SortBat == [DefaultCard EXCEPT !.name = bat, !.type = creature,
                               !.cost = Precise(Const(1))]
SortCurse == [DefaultCard EXCEPT !.name = curse, !.type = command,
                                 !.cost = Precise(Const(2))]
SortDoom == [DefaultCard EXCEPT !.name = doom, !.type = command,
                                !.cost = Imprecise(Cmp("GreaterThanOrEqual", 1))]

SortPool == {SortAnt, SortBat, SortCurse, SortDoom}

SortCatalogues == SeqsUpTo(SortPool, MaxCards)

\* the name of a query for cards that have an "a" somewhere
name_a == <<"a">>

Orderings == {"Ascending", "Descending"}

\* every variant of Sort, on a query without a name
SortVariants ==
    {SortNone, SortFuzzy}
    \cup {SortAlphabet(p, o) : p \in {"Name", "Type"}, o \in Orderings}
    \cup {SortNumeric(p, o) : p \in {"Cost", "Health"}, o \in Orderings}

\* the queries parse_tokens builds for an empty text and for the word "a"
SortQueries ==
    {Query(<<>>, <<>>, srt) : srt \in SortVariants}
    \cup {Query(name_a, <<Fuzzy(name_a)>>, SortFuzzy)}

\* the answers fuzzy_compare can give for the texts of a catalogue
CatalogueTexts(cs) == UNION {SimilarityTexts(cs[i]) : i \in DOMAIN cs}

InitSort ==
    /\ build \in Builds
    /\ cards \in SortCatalogues
    /\ query \in SortQueries
    /\ sim \in IF query.name = <<>>
               THEN {[t \in CatalogueTexts(cards) |-> 0]}
               ELSE [CatalogueTexts(cards) -> Similarities]
    /\ pos = 0
    /\ cache = EmptyCache
    /\ verdicts = <<>>
    /\ results = <<>>
    /\ pc = "filter"
    /\ NumIdle
    /\ OrdIdle
    /\ ParseIdle
    /\ KinIdle
    /\ SerdeIdle
    /\ IdIdle

NextSort == SearchFilter \/ SearchSort

SpecSort == InitSort /\ [][NextSort]_vars

-----------------------------------------------------------------------------
(* The query parser: tokenize_query, one character at a time, and          *)
(* parse_tokens on the tokens it returns.                                  *)

\* enum Token
TokWord(text) == [t |-> "Word", text |-> text]
TokParam(param, value) == [t |-> "Param", param |-> param, value |-> value]
TokRegexParam(param, regex) == [t |-> "RegexParam", param |-> param, regex |-> regex]
TokSuperParam(param, tokens) == [t |-> "SuperParam", param |-> param, tokens |-> tokens]
TokNot(tokens) == [t |-> "Not", tokens |-> tokens]
TokLenientNot(tokens) == [t |-> "LenientNot", tokens |-> tokens]
TokGroup(tokens) == [t |-> "Group", tokens |-> tokens]
TokOr(left, right) == [t |-> "Or", left |-> left, right |-> right]
TokXor(left, right) == [t |-> "Xor", left |-> left, right |-> right]

\* Token::polar_wrap
polar_wrap(tok, polarity) ==
    CASE polarity = "True" -> tok
      [] polarity = "False" -> TokNot(<<tok>>)
      [] polarity = "Void" -> TokLenientNot(<<tok>>)

\* a stack that never fills a pending Or or Xor
TokenStackPush_NeverFills(tokens, tok) == Append(tokens, tok)

\* TokenStack::push: a token completes a pending Or or Xor on top of the stack
TokenStackPush(tokens, tok) ==
    IF tokens = <<>> THEN <<tok>>
    ELSE LET top == tokens[Len(tokens)]
             rest == SubSeq(tokens, 1, Len(tokens) - 1)
         IN  IF top.t = "Or" /\ top.right = None
             THEN Append(rest, TokOr(top.left, Some(<<tok>>)))
             ELSE IF top.t = "Xor" /\ top.right = None
             THEN Append(rest, TokXor(top.left, Some(<<tok>>)))
             ELSE Append(tokens, tok)

\* CharOrEnd::End
End == "End"

OR_word == <<"O", "R">>
XOR_word == <<"X", "O", "R">>

\* the locals of tokenize_query at its entry; result tells how far the call
\* has come: "Running", "Ok", or the error it returned
TokenizerStart ==
    [tokens |-> <<>>, word |-> <<>>, mode |-> "Word", param |-> <<>>,
     paren_count |-> 0, polarity |-> "True", result |-> "Running"]

\* return Err(err)
TokFail(st, err) == [st EXCEPT !.result = err]

\* the same without `polarity = Ternary::True`
TokComplete_KeepsPolarity(st, tok) ==
    [st EXCEPT !.tokens = TokenStackPush(st.tokens, polar_wrap(tok, st.polarity)),
               !.word = <<>>, !.mode = "Word", !.param = <<>>]

\* tokens.push(tok.polar_wrap(polarity)), and the resets after it
TokComplete(st, tok) ==
    [st EXCEPT !.tokens = TokenStackPush(st.tokens, polar_wrap(tok, st.polarity)),
               !.polarity = "True", !.word = <<>>, !.mode = "Word", !.param = <<>>]

\* word.push(ch)
TokPush(st, ch) == [st EXCEPT !.word = Append(st.word, ch)]

\* Regex::new succeeds on a pattern of the characters of the model when its
\* parentheses are balanced
RECURSIVE ParenDepth(_, _, _)
ParenDepth(text, i, depth) ==
    IF depth < 0 THEN depth
    ELSE IF i > Len(text) THEN depth
    ELSE ParenDepth(text, i + 1,
                    depth + (IF text[i] = "(" THEN 1 ELSE IF text[i] = ")" THEN 0 - 1 ELSE 0))

RegexCompiles(pattern) == ParenDepth(pattern, 1, 0) = 0

\* a tokenizer that takes a hyphen behind the first character of a word as
\* a character of the word
SwitchPolarity_HyphenInWord(st) ==
    IF st.word # <<>> THEN TokPush(st, "-")
    ELSE CASE st.polarity = "True" -> [st EXCEPT !.polarity = "False"]
           [] st.polarity = "False" -> [st EXCEPT !.polarity = "Void"]
           [] st.polarity = "Void" -> TokFail(st, "InvalidPolarity")

\* the arm of Word mode for '-': the match on polarity
SwitchPolarity(st) ==
    CASE st.polarity = "True" -> [st EXCEPT !.polarity = "False"]
      [] st.polarity = "False" -> [st EXCEPT !.polarity = "Void"]
      [] st.polarity = "Void" -> TokFail(st, "InvalidPolarity")

\* the Word arm of tokenize_query
TokenizeWord(st, ch) ==
    CASE ch = "-" -> SwitchPolarity(st)
      [] ch = "(" /\ st.word = <<>> -> [st EXCEPT !.mode = "Group"]
      [] ch \in {" ", End} ->
            (CASE st.word = <<>> -> [st EXCEPT !.polarity = "True"]
               [] st.word \in {OR_word, XOR_word} ->
                    IF st.tokens = <<>> THEN TokFail(st, "InvalidOr")
                    ELSE LET top == st.tokens[Len(st.tokens)]
                             rest == SubSeq(st.tokens, 1, Len(st.tokens) - 1)
                             pending == IF st.word = OR_word THEN TokOr(<<top>>, None)
                                        ELSE TokXor(<<top>>, None)
                         IN  [st EXCEPT !.tokens = TokenStackPush(rest, pending),
                                        !.polarity = "True", !.word = <<>>]
               [] OTHER ->
                    [st EXCEPT !.tokens = TokenStackPush(st.tokens,
                                              polar_wrap(TokWord(st.word), st.polarity)),
                               !.polarity = "True", !.word = <<>>])
      [] ch = ":" ->
            IF st.word = <<>> THEN TokFail(st, "AttemptedEmptyParamName")
            ELSE [st EXCEPT !.mode = "Param", !.param = st.word, !.word = <<>>]
      [] ch \in {"<", "!", ">", "="} ->
            IF st.word = <<>> THEN TokFail(st, "AttemptedEmptyParamName")
            ELSE [st EXCEPT !.mode = "Param", !.param = st.word, !.word = <<ch>>]
      [] OTHER -> TokPush(st, ch)

\* the Param arm
TokenizeParam(st, ch) ==
    CASE ch \in {" ", End} -> TokComplete(st, TokParam(st.param, st.word))
      [] ch = "\"" /\ st.word = <<>> -> [st EXCEPT !.mode = "QParam"]
      [] ch = "/" /\ st.word = <<>> -> [st EXCEPT !.mode = "RegexParam"]
      [] ch = "(" /\ st.word = <<>> -> [st EXCEPT !.mode = "SParam"]
      [] OTHER -> TokPush(st, ch)

\* the RegexParam arm
TokenizeRegexParam(st, ch) ==
    IF ch \in {End, "/"}
    THEN IF RegexCompiles(ToLowercase(st.word))
         THEN TokComplete(st, TokRegexParam(st.param, ToLowercase(st.word)))
         ELSE TokFail(st, "RegexErr")
    ELSE TokPush(st, ch)

\* the QParam arm
TokenizeQParam(st, ch) ==
    CASE ch = "\"" -> TokComplete(st, TokParam(st.param, st.word))
      [] ch = End -> TokFail(st, "UnclosedString")
      [] OTHER -> TokPush(st, ch)

\* the same arms without `paren_count -= 1`
TokenizeNested_NoDecrement(st, ch, unclosed) ==
    CASE ch = "(" -> [st EXCEPT !.paren_count = st.paren_count + 1,
                                !.word = Append(st.word, ch)]
      [] ch = End -> TokFail(st, unclosed)
      [] OTHER -> TokPush(st, ch)

\* what the SParam and Group arms do with a parenthesis that is not the
\* closing one, and with any other character
TokenizeNested(st, ch, unclosed) ==
    CASE ch = "(" -> [st EXCEPT !.paren_count = st.paren_count + 1,
                                !.word = Append(st.word, ch)]
      [] ch = ")" /\ st.paren_count > 0 ->
                     [st EXCEPT !.paren_count = st.paren_count - 1,
                                !.word = Append(st.word, ch)]
      [] ch = End -> TokFail(st, unclosed)
      [] OTHER -> TokPush(st, ch)

RECURSIVE tokenize_query(_)
RECURSIVE TokenizeStep(_, _)
RECURSIVE TokenizeFrom(_, _, _)

\* the SParam arm
TokenizeSParam(st, ch) ==
    IF ch = ")" /\ st.paren_count = 0
    THEN LET sub == tokenize_query(st.word) IN
         IF sub.result = "Ok"
         THEN TokComplete(st, TokSuperParam(st.param, sub.tokens))
         ELSE TokFail(st, sub.result)
    ELSE TokenizeNested(st, ch, "UnclosedRegex")

\* the Group arm
TokenizeGroup(st, ch) ==
    IF ch = ")" /\ st.paren_count = 0
    THEN LET sub == tokenize_query(st.word) IN
         IF sub.result = "Ok"
         THEN TokComplete(st, TokGroup(sub.tokens))
         ELSE TokFail(st, sub.result)
    ELSE TokenizeNested(st, ch, "UnclosedSubquery")

\* one turn of the loop of tokenize_query; after the turn for End the call
\* returns Ok(tokens.tokens) unless the turn returned an error
TokenizeStep(st, ch) ==
    LET after == CASE st.mode = "Word" -> TokenizeWord(st, ch)
                   [] st.mode = "Param" -> TokenizeParam(st, ch)
                   [] st.mode = "RegexParam" -> TokenizeRegexParam(st, ch)
                   [] st.mode = "QParam" -> TokenizeQParam(st, ch)
                   [] st.mode = "SParam" -> TokenizeSParam(st, ch)
                   [] st.mode = "Group" -> TokenizeGroup(st, ch)
    IN  IF ch = End /\ after.result = "Running"
        THEN [after EXCEPT !.result = "Ok"]
        ELSE after

\* the loop from the i-th character of q on
TokenizeFrom(st, q, i) ==
    IF st.result # "Running" THEN st
    ELSE IF i > Len(q) THEN TokenizeStep(st, End)
    ELSE TokenizeFrom(TokenizeStep(st, q[i]), q, i + 1)

tokenize_query(q) == TokenizeFrom(TokenizerStart, q, 1)

\* enum Properties
StringProperty(property) == [kind |-> "StringProperty", property |-> property]
NumProperty(property) == [kind |-> "NumProperty", property |-> property]
ArrayProperty(property) == [kind |-> "ArrayProperty", property |-> property]
SortProperty(order) == [kind |-> "Sort", order |-> order]
KeywordsProperty == [kind |-> "Keywords"]

\* get_property_from_name: None stands for Err(UnknownStringParam)
get_property_from_name(str) ==
    CASE str \in {<<"i", "d">>} -> Some(StringProperty("Id"))
      [] str \in {<<"n", "a", "m", "e">>, <<"n">>} -> Some(StringProperty("Name"))
      [] str \in {<<"f", "l", "a", "v", "o", "r", "t", "e", "x", "t">>, <<"f", "l", "a", "v", "o", "r">>, <<"f", "t">>} ->
            Some(StringProperty("FlavorText"))
      [] str \in {<<"d", "e", "s", "c", "r", "i", "p", "t", "i", "o", "n">>, <<"d", "e", "s", "c">>, <<"d", "e">>} ->
            Some(StringProperty("Description"))
      [] str \in {<<"t", "y", "p", "e">>, <<"t">>} -> Some(StringProperty("Type"))
      [] str \in {<<"c", "o", "s", "t">>, <<"c">>} -> Some(NumProperty("Cost"))
      [] str \in {<<"h", "e", "a", "l", "t", "h">>, <<"h">>, <<"h", "p">>} -> Some(NumProperty("Health"))
      [] str \in {<<"p", "o", "w", "e", "r">>, <<"s", "t", "r", "e", "n", "g", "t", "h">>, <<"d", "a", "m", "a", "g", "e">>, <<"p">>, <<"d", "m", "g">>, <<"s", "t", "r">>} ->
            Some(NumProperty("Power"))
      [] str \in {<<"d", "e", "f", "e", "n", "s", "e">>, <<"d", "e", "f">>, <<"d">>} -> Some(NumProperty("Defense"))
      [] str \in {<<"k", "i", "n">>, <<"k">>} -> Some(ArrayProperty("Kins"))
      [] str \in {<<"f", "u", "n", "c", "t", "i", "o", "n">>, <<"f", "u", "n">>, <<"f", "n">>, <<"f">>} ->
            Some(ArrayProperty("Functions"))
      [] str \in {<<"k", "e", "y", "w", "o", "r", "d">>, <<"k", "w">>} -> Some(KeywordsProperty)
      [] str \in {<<"s", "o", "r", "t">>, <<"s", "o">>} -> Some(SortProperty("Ascending"))
      [] str \in {<<"s", "o", "r", "t", "d">>, <<"s", "o", "d">>} -> Some(SortProperty("Descending"))
      [] OTHER -> None

\* the parameter names of the Devours and of the DevouredBy super-parameter
DevoursNames == {<<"d", "e", "v", "o", "u", "r", "s">>, <<"d", "e", "v">>, <<"d", "e">>, <<"d", "e", "v", "s">>}
DevouredByNames == {<<"d", "e", "v", "o", "u", "r", "e", "d", "b", "y">>, <<"d", "e", "v", "b", "y">>, <<"d", "e", "b", "y">>, <<"d", "b", "y">>, <<"d", "b">>}

IsDigit(ch) == \E d \in 1 .. Len(Digits) : Digits[d] = ch
DigitValue(ch) == (CHOOSE d \in 1 .. Len(Digits) : Digits[d] = ch) - 1

\* the number a text of digits denotes, or UsizeModulus once it has left usize
RECURSIVE DigitsValue(_, _)
DigitsValue(text, acc) ==
    IF text = <<>> THEN acc
    ELSE IF acc * 10 + DigitValue(Head(text)) > UsizeMax THEN UsizeModulus
    ELSE DigitsValue(Tail(text), acc * 10 + DigitValue(Head(text)))

\* str::parse::<usize>: an optional '+' and at least one digit; None stands
\* for the Err of a text that is not a number or does not fit usize
ParseUsize(text) ==
    LET digits == IF text # <<>> /\ Head(text) = "+" THEN Tail(text) ELSE text IN
    IF digits = <<>> \/ \E i \in 1 .. Len(digits) : ~IsDigit(digits[i]) THEN None
    ELSE IF DigitsValue(digits, 0) > UsizeMax THEN None
    ELSE Some(DigitsValue(digits, 0))

StartsWith(text, prefix) ==
    Len(text) >= Len(prefix) /\ SubSeq(text, 1, Len(prefix)) = prefix

\* end.parse::<usize>().map(op) after s.strip_prefix(prefix)
ParseAfterPrefix(text, prefix, op) ==
    LET number == ParseUsize(SubSeq(text, Len(prefix) + 1, Len(text))) IN
    IF number = None THEN None ELSE Some(Cmp(op, number[1]))

\* text_comparison_parser: None stands for Err(InvalidComparisonString)
text_comparison_parser(text) ==
    CASE ParseUsize(text) # None -> Some(Cmp("Equal", ParseUsize(text)[1]))
      [] StartsWith(text, <<">", "=">>) ->
            ParseAfterPrefix(text, <<">", "=">>, "GreaterThanOrEqual")
      [] StartsWith(text, <<"<", "=">>) ->
            ParseAfterPrefix(text, <<"<", "=">>, "LowerThanOrEqual")
      [] StartsWith(text, <<">">>) -> ParseAfterPrefix(text, <<">">>, "GreaterThan")
      [] StartsWith(text, <<"<">>) -> ParseAfterPrefix(text, <<"<">>, "LowerThan")
      [] StartsWith(text, <<"=">>) -> ParseAfterPrefix(text, <<"=">>, "Equal")
      [] StartsWith(text, <<"!", "=">>) ->
            ParseAfterPrefix(text, <<"!", "=">>, "NotEqual")
      [] OTHER -> None

\* str::trim for the blanks of the model
RECURSIVE Trim(_)
Trim(text) ==
    IF text = <<>> THEN text
    ELSE IF Head(text) = " " THEN Trim(Tail(text))
    ELSE IF text[Len(text)] = " " THEN Trim(SubSeq(text, 1, Len(text) - 1))
    ELSE text

ParseOk(q) == [ok |-> TRUE, query |-> q]
ParseErr(err) == [ok |-> FALSE, err |-> err]

\* the locals of parse_tokens at its entry
ParserStart == [name |-> <<>>, restrictions |-> <<>>, sort |-> SortFuzzy]

\* restrictions.push(r)
PushRestriction(acc, r) == [acc EXCEPT !.restrictions = Append(acc.restrictions, r)]

\* group.sort = Sort::None
Unsorted(q) == [q EXCEPT !.sort = SortNone]

RECURSIVE parse_tokens(_)
RECURSIVE ParseFrom(_, _, _)
RECURSIVE ParseToken(_, _)

\* the arms of parse_tokens that parse one list of tokens as a subquery and
\* wrap it: Group, Not, LenientNot and the two super-parameters
ParseWrapped(acc, tokens, wrap) ==
    LET group == parse_tokens(tokens) IN
    IF ~group.ok THEN group
    ELSE ParseOk(PushRestriction(acc,
            CASE wrap = "Group" -> Group(Unsorted(group.query))
              [] wrap = "Not" -> Not(Unsorted(group.query))
              [] wrap = "LenientNot" -> LenientNot(Unsorted(group.query))
              [] wrap = "Devours" -> Devours(Unsorted(group.query))
              [] wrap = "DevouredBy" -> DevouredBy(Unsorted(group.query))))

\* the Or and Xor arms
ParseBinary(acc, tok) ==
    IF tok.right = None THEN ParseErr("InvalidOr")
    ELSE LET group1 == parse_tokens(tok.left) IN
         IF ~group1.ok THEN group1
         ELSE LET group2 == parse_tokens(tok.right[1]) IN
              IF ~group2.ok THEN group2
              ELSE ParseOk(PushRestriction(acc,
                      IF tok.t = "Or"
                      THEN Or(Unsorted(group1.query), Unsorted(group2.query))
                      ELSE Xor(Unsorted(group1.query), Unsorted(group2.query))))

\* the Param arm
ParseParam(acc, tok) ==
    LET property == get_property_from_name(tok.param) IN
    IF property = None THEN ParseErr("UnknownStringParam")
    ELSE CASE property[1].kind = "Sort" ->
                (LET field == get_property_from_name(tok.value) IN
                 IF field = None THEN ParseErr("UnknownStringParam")
                 ELSE CASE field[1].kind = "NumProperty" ->
                             ParseOk([acc EXCEPT !.sort =
                                 SortNumeric(field[1].property, property[1].order)])
                        [] field[1].kind = "StringProperty" ->
                             ParseOk([acc EXCEPT !.sort =
                                 SortAlphabet(field[1].property, property[1].order)])
                        [] OTHER -> ParseErr("NotSortable"))
           [] property[1].kind = "NumProperty" ->
                (LET cmp == text_comparison_parser(tok.value) IN
                 IF cmp = None THEN ParseErr("InvalidComparisonString")
                 ELSE ParseOk(PushRestriction(acc,
                         NumberComparison(property[1].property, cmp[1]))))
           [] property[1].kind = "StringProperty" ->
                ParseOk(PushRestriction(acc,
                    TextComparison(property[1].property, Contains(tok.value))))
           [] property[1].kind = "ArrayProperty" ->
                ParseOk(PushRestriction(acc,
                    Has(property[1].property, Contains(tok.value))))
           [] property[1].kind = "Keywords" ->
                ParseOk(PushRestriction(acc, HasKw(Contains(tok.value))))

\* one turn of the loop of parse_tokens: the locals after the token, or the
\* error the turn returned
ParseToken(acc, tok) ==
    CASE tok.t = "RegexParam" ->
            (LET property == get_property_from_name(tok.param) IN
             IF property = None THEN ParseErr("UnknownStringParam")
             ELSE IF property[1].kind = "StringProperty"
             THEN ParseOk(PushRestriction(acc,
                     TextComparison(property[1].property, HasMatch(tok.regex))))
             ELSE ParseErr("NonRegexable"))
      [] tok.t \in {"Or", "Xor"} -> ParseBinary(acc, tok)
      [] tok.t \in {"Group", "Not", "LenientNot"} -> ParseWrapped(acc, tok.tokens, tok.t)
      [] tok.t = "Word" ->
            ParseOk([acc EXCEPT !.name = acc.name \o tok.text \o <<" ">>])
      [] tok.t = "Param" -> ParseParam(acc, tok)
      [] tok.t = "SuperParam" ->
            IF tok.param \in DevoursNames THEN ParseWrapped(acc, tok.tokens, "Devours")
            ELSE IF tok.param \in DevouredByNames
            THEN ParseWrapped(acc, tok.tokens, "DevouredBy")
            ELSE ParseErr("UnknownSubQueryParam")

\* the loop from the i-th token on, and what follows it
ParseFrom(acc, tokens, i) ==
    IF i > Len(tokens)
    THEN LET name == Trim(acc.name) IN
         ParseOk(Query(name,
                       IF name # <<>> THEN Append(acc.restrictions, Fuzzy(name))
                       ELSE acc.restrictions,
                       acc.sort))
    ELSE LET turn == ParseToken(acc, tokens[i]) IN
         IF ~turn.ok THEN turn ELSE ParseFrom(turn.query, tokens, i + 1)

parse_tokens(tokens) == ParseFrom(ParserStart, tokens, 1)

\* query_parser, on a whole text at once
query_parser(q) ==
    LET tokenized == tokenize_query(q) IN
    IF tokenized.result # "Ok" THEN ParseErr(tokenized.result)
    ELSE parse_tokens(tokenized.tokens)

-----------------------------------------------------------------------------
(* One call of query_parser: the tokenizer consumes the text one character *)
(* at a time, then End; parse_tokens runs on the tokens it returned.       *)

\* the longest text made of pieces
MaxPieces == 3
\* the most hyphens written in front of a token
MaxDashes == 3

\* the pieces query texts are made of
Pieces == {<<"-">>, <<" ">>, <<"a">>, <<"n", ":">>, <<"\"">>, <<"/">>, <<"(">>, <<")">>, <<"O", "R">>}

RECURSIVE PieceTexts(_)
PieceTexts(n) ==
    IF n = 0 THEN {<<>>}
    ELSE PieceTexts(n - 1) \cup {text \o piece : text \in PieceTexts(n - 1), piece \in Pieces}

\* k hyphens
RECURSIVE Dashes(_)
Dashes(k) == IF k = 0 THEN <<>> ELSE <<"-">> \o Dashes(k - 1)

\* one token of each kind, written in full
word_a == <<"a">>
param_n_a == <<"n", ":", "a">>
quoted_n_a == <<"n", ":", "\"", "a", "\"">>
regex_n_a == <<"n", ":", "/", "a", "/">>
super_dby_a == <<"d", "b", "y", ":", "(", "a", ")">>
group_a == <<"(", "a", ")">>
cost_gt_1 == <<"c", ">", "1">>
ClosedBodies == {word_a, param_n_a, quoted_n_a, regex_n_a, super_dby_a, group_a, cost_gt_1}

\* the same tokens with the closing delimiter missing
unclosed_quoted == <<"n", ":", "\"", "a">>
unclosed_regex == <<"n", ":", "/", "a">>
unclosed_super == <<"d", "b", "y", ":", "(", "a">>
unclosed_group == <<"(", "a">>
UnclosedBodies == {unclosed_quoted, unclosed_regex, unclosed_super, unclosed_group}

\* what follows the token
Tails == {<<>>, <<" ", "a">>, <<" ", "n", ":", "a">>}

\* a token with up to MaxDashes hyphens in front and another token behind
DashedTexts ==
    {Dashes(k) \o body \o tail :
        k \in 0 .. MaxDashes, body \in ClosedBodies \cup UnclosedBodies, tail \in Tails}

SORT_cost_descending == <<"S", "O", "R", "T", " ", "c", "o", "s", "t", " ", "d", "e", "s", "c", "e", "n", "d", "i", "n", "g">>
sortd_cost == <<"s", "o", "r", "t", "d", ":", "c", "o", "s", "t">>
sort_name_a == <<"s", "o", "r", "t", ":", "n", "a", "m", "e", " ", "a">>
a_OR_b == <<"a", " ", "O", "R", " ", "b">>
a_dash_b == <<"a", "-", "b">>
nested_groups == <<"(", "(", "a", ")", " ", "-", "(", "b", ")", ")", ")">>
a_b_three_dashes == <<"a", "-", "b", "-", "a", "-", "b">>
dash_a_dash_b == <<"-", "a", "-", "b">>
super_nested == <<"d", "b", "y", ":", "(", "(", "a", ")", "(", "(", "b", ")", ")", ")", " ", "a">>
FixedTexts ==
    {SORT_cost_descending, sortd_cost, sort_name_a, a_OR_b, a_dash_b, nested_groups,
     a_b_three_dashes, dash_a_dash_b, super_nested}

\* the two operator words and what may stand in front of the left operand
OperatorWords == {OR_word, XOR_word}
Fronts == {<<>>, <<"a", " ">>}

\* the text of front, A, the operator, B and tail
OrText(front, bodyA, op, bodyB, tail) ==
    front \o bodyA \o <<" ">> \o op \o <<" ">> \o bodyB \o tail

\* A OR B and A XOR B for every pair of closed tokens
OrTexts ==
    {OrText(front, bodyA, op, bodyB, tail) :
        front \in Fronts, bodyA \in ClosedBodies, op \in OperatorWords,
        bodyB \in ClosedBodies, tail \in Tails}

\* an operator with nothing behind it, and one with nothing in front
UnfilledTexts ==
    {bodyA \o <<" ">> \o op \o blank :
        bodyA \in ClosedBodies, op \in OperatorWords, blank \in {<<>>, <<" ">>}}
LeadingOrTexts ==
    {op \o <<" ">> \o bodyB : op \in OperatorWords, bodyB \in ClosedBodies}

\* the texts handed to query_parser
ParserInputs ==
    PieceTexts(MaxPieces) \cup DashedTexts \cup FixedTexts
    \cup OrTexts \cup UnfilledTexts \cup LeadingOrTexts

InitParse ==
    /\ build \in Builds
    /\ pin \in ParserInputs
    /\ ppos = 0
    /\ tk = TokenizerStart
    /\ pout = None
    /\ NumIdle
    /\ SearchIdle
    /\ OrdIdle
    /\ KinIdle
    /\ SerdeIdle
    /\ IdIdle

\* a turn of the loop of tokenize_query on the next character of the text
TokenizeChar ==
    /\ tk.result = "Running"
    /\ ppos < Len(pin)
    /\ tk' = TokenizeStep(tk, pin[ppos + 1])
    /\ ppos' = ppos + 1
    /\ UNCHANGED <<build, idVars, kinVars, serdeVars, numVars, searchVars, ordVars, pin, pout>>

\* the last turn of the loop, on CharOrEnd::End
TokenizeEnd ==
    /\ tk.result = "Running"
    /\ ppos = Len(pin)
    /\ tk' = TokenizeStep(tk, End)
    /\ UNCHANGED <<build, idVars, kinVars, serdeVars, numVars, searchVars, ordVars, pin, ppos, pout>>

\* tokenize_query(q)? on an error: query_parser returns it
TokenizeFailed ==
    /\ tk.result \notin {"Running", "Ok"}
    /\ pout = None
    /\ pout' = Some(ParseErr(tk.result))
    /\ UNCHANGED <<build, idVars, kinVars, serdeVars, numVars, searchVars, ordVars, pin, ppos, tk>>

\* parse_tokens(&q): what it returns is what query_parser returns
ParseTokens ==
    /\ tk.result = "Ok"
    /\ pout = None
    /\ pout' = Some(parse_tokens(tk.tokens))
    /\ UNCHANGED <<build, idVars, kinVars, serdeVars, numVars, searchVars, ordVars, pin, ppos, tk>>

NextParse == TokenizeChar \/ TokenizeEnd \/ TokenizeFailed \/ ParseTokens

SpecParse == InitParse /\ [][NextParse]_vars

-----------------------------------------------------------------------------
(* The interval of natural numbers a comparison denotes *)

\* n belongs to the interval denoted by the comparison c
InInterval(n, c) ==
    CASE c.op = "GreaterThan" -> n > c.n
      [] c.op = "GreaterThanOrEqual" -> n >= c.n
      [] c.op = "LowerThan" -> n < c.n
      [] c.op = "LowerThanOrEqual" -> n <= c.n
      [] c.op = "Equal" -> n = c.n
      [] c.op = "NotEqual" -> n # c.n

\* enough naturals to decide "some number of the interval is above / below k"
\* for every k and every bound of the interval in usize
NatRange == 0 .. (UsizeMax + 2)

ImpreciseCalled(method) ==
    /\ ncalled = method
    /\ IsSome(nslot)
    /\ nslot[1].kind = "Imprecise"

-----------------------------------------------------------------------------
(* Claims about the number comparisons (specification SpecCompare) *)

\* C4: evaluation is total: a NumberComparison with any usize k, k = 0 and
\* k = the maximum usize included, against any slot returns True, False or
\* Void and never fails at runtime.
C4_EvaluationTotal ==
    ncalled \notin {"unread", "none"} => noutcome \in Ternary

\* C7: for a card whose type contains "command", reading Health, Power or
\* Defense gives None whatever number is stored, so every comparison on them
\* is Void; Cost is always present and never gives Void.
C7_CommandCarveOut ==
    ncalled # "unread" =>
        /\ (StrContains(ncard.type, command) /\ nprop # "Cost") =>
              /\ nslot = None
              /\ (ncalled # "none" => noutcome = "Void")
        /\ (nprop = "Cost") =>
              /\ nslot = Some(ncard.cost)
              /\ noutcome # "Void"

C7_Witness ==
    /\ ncalled = "eq"
    /\ ncard.type = extended_command
    /\ nprop = "Power"
    /\ ncard.power = Precise(Const(3))
    /\ nk = 3
    /\ noutcome = "Void"

\* C8: for a slot Imprecise(cmp) and every k, eq(k) is True iff k belongs to
\* the interval of natural numbers denoted by cmp, and False otherwise.
C8_EqIsMembership ==
    ImpreciseCalled("eq") => noutcome = FromBool(InInterval(nk, nslot[1].v))

C8_Witness ==
    /\ ImpreciseCalled("eq")
    /\ nslot[1].v = Cmp("GreaterThan", 2)
    /\ nk = 3
    /\ noutcome = "True"

\* C9: for a slot Imprecise(cmp) and every k, gt(k) is True iff some natural
\* number in the interval denoted by cmp is strictly greater than k, and
\* False otherwise.
C9_GtIsSomeGreater ==
    ImpreciseCalled("gt") =>
        noutcome = FromBool(\E n \in NatRange : InInterval(n, nslot[1].v) /\ n > nk)

\* C10: for a slot Imprecise(cmp) and every k, gt_eq(k) is True iff some
\* natural number in the interval denoted by cmp is >= k, and False otherwise.
C10_GtEqIsSomeGreaterOrEqual ==
    ImpreciseCalled("gt_eq") =>
        noutcome = FromBool(\E n \in NatRange : InInterval(n, nslot[1].v) /\ n >= nk)

\* C11: for a slot Imprecise(cmp) and every k, lt_eq(k) is True iff some
\* natural number in the interval denoted by cmp is <= k, and False otherwise
\* (for a slot >=m iff m <= k, for >m iff m < k, for =m iff m <= k).
C11_LtEqIsSomeLowerOrEqual ==
    ImpreciseCalled("lt_eq") =>
        noutcome = FromBool(\E n \in NatRange : InInterval(n, nslot[1].v) /\ n <= nk)

\* C12: for a slot Imprecise(cmp) and every k, lt(k) is True iff some natural
\* number in the interval denoted by cmp is strictly smaller than k, and
\* False otherwise; for k = 0 it is False for every slot.
C12_LtIsSomeLower ==
    ImpreciseCalled("lt") =>
        noutcome = FromBool(\E n \in NatRange : InInterval(n, nslot[1].v) /\ n < nk)

\* C13: for a slot Imprecise(cmp) and every k, ne(k) is True iff the interval
\* denoted by cmp contains some value different from k; it is False only
\* when that interval is exactly the single value k.
C13_NeIsSomeOther ==
    ImpreciseCalled("ne") =>
        noutcome = FromBool(\E n \in NatRange : InInterval(n, nslot[1].v) /\ n # nk)

-----------------------------------------------------------------------------
(* Claims about the comparator of the numeric sort (specification SpecOrd) *)

OrdNames == {"a", "b", "c"}

\* C18: imprecise_cmp over Option<MaybeImprecise> is a total order:
\* imprecise_cmp(a, a) = Equal, imprecise_cmp(a, b) is the reverse of
\* imprecise_cmp(b, a), it is transitive, and None compares less than every
\* Some.
C18_ImpreciseCmpIsTotalOrder ==
    IsSome(ores) =>
        LET t == ores[1] IN
        /\ \A x \in OrdNames : t[<<x, x>>] = "Equal"
        /\ \A x \in OrdNames, y \in OrdNames : t[<<x, y>>] = Reverse(t[<<y, x>>])
        /\ \A x \in OrdNames, y \in OrdNames, z \in OrdNames :
              (t[<<x, y>>] # "Greater" /\ t[<<y, z>>] # "Greater") =>
                  /\ t[<<x, z>>] # "Greater"
                  /\ ("Less" \in {t[<<x, y>>], t[<<y, z>>]} => t[<<x, z>>] = "Less")
        /\ \A x \in OrdNames, y \in OrdNames :
              (IsNone(OrdSlot(x)) /\ IsSome(OrdSlot(y))) => t[<<x, y>>] = "Less"

-----------------------------------------------------------------------------
(* Claims about the search (specification SpecSearch) *)

\* the verdict matches_query gives on the i-th card of the catalogue for the
\* query q when it is called on its own, with a cache that is still empty
Standalone(i, q) == matches_query(cards[i], q, cards, EmptyCache, build).val

Catalogue == 1 .. Len(cards)

Returned == {results[x] : x \in 1 .. Len(results)}

\* the search keeps exactly the cards whose verdict, as the filter computed it
\* with the cache of the search, was True
SearchKeepsTrueVerdicts ==
    pc = "done" =>
        /\ Returned = {i \in Catalogue : verdicts[i] = "True"}
        /\ Len(results) = Cardinality(Returned)

\* C1: search returns exactly the cards of the catalogue for which
\* matches_query is True: no card whose evaluation is False or Void, no card
\* more often than it occurs in the input, no card outside the input.
C1_SearchReturnsMatching ==
    pc = "done" =>
        /\ Returned = {i \in Catalogue : Standalone(i, query) = "True"}
        /\ Len(results) = Cardinality(Returned)

\* the identity the first devours keyword of the card carries names the i-th card
FirstIdentityMatches(devourer, i) ==
    \E k \in 1 .. Len(devourer.keywords) :
        /\ devourer.keywords[k].name = devours
        /\ \A j \in 1 .. (k - 1) : devourer.keywords[j].name # devours
        /\ IsSome(devourer.keywords[k].data)
        /\ devourer.keywords[k].data[1].tag = "CardId"
        /\ Standalone(i, SubQuery(get_as_query(devourer.keywords[k].data[1].id)))
               = "True"

\* some devours keyword of the card carries an identity that names the i-th card
SomeIdentityMatches(devourer, i) ==
    \E k \in 1 .. Len(devourer.keywords) :
        /\ devourer.keywords[k].name = devours
        /\ IsSome(devourer.keywords[k].data)
        /\ devourer.keywords[k].data[1].tag = "CardId"
        /\ Standalone(i, SubQuery(get_as_query(devourer.keywords[k].data[1].id)))
               = "True"

IsDevouredByQuery ==
    /\ Len(query.restrictions) = 1
    /\ query.restrictions[1].r = "DevouredBy"

\* C2: matches_query(c, DevouredBy(q)) is True iff some catalogue card d with
\* matches_query(d, q) = True carries a devours keyword whose identity matches
\* c, and False otherwise; when no card matching q carries such a keyword, no
\* card matches DevouredBy(q).
C2_DevouredByIffDevoured ==
    (pc = "done" /\ IsDevouredByQuery) =>
        \A i \in Catalogue :
            Standalone(i, query) =
                FromBool(\E d \in Catalogue :
                            /\ Standalone(d, query.restrictions[1].q) = "True"
                            /\ SomeIdentityMatches(cards[d], i))

DevourFixture == <<InfectedFly, InfectedHost>>

\* dby:(n:"infected fly") and dby:(n:"infected host") as the parser builds them
DbyInfectedFly == Query(<<>>, <<DevouredBy(SubQuery(<<NameFly>>))>>, SortFuzzy)
DbyInfectedHost == Query(<<>>, <<DevouredBy(SubQuery(<<NameHost>>))>>, SortFuzzy)

TableXor(x, y) ==
    CASE x = "Void" /\ y = "Void" -> "Void"
      [] x = "True" /\ y = "True" -> "False"
      [] x = "False" /\ y = "False" -> "False"
      [] x = "True" /\ y = "False" -> "True"
      [] x = "False" /\ y = "True" -> "True"
      [] x = "Void" /\ y = "True" -> "True"
      [] x = "True" /\ y = "Void" -> "True"
      [] x = "Void" /\ y = "False" -> "False"
      [] x = "False" /\ y = "Void" -> "False"

TernaryTables ==
    /\ \A x \in Ternary, y \in Ternary :
        /\ TernaryAnd(x, y) = (IF TernaryOrd(x) <= TernaryOrd(y) THEN x ELSE y)
        /\ TernaryOr(x, y) = (IF TernaryOrd(x) >= TernaryOrd(y) THEN x ELSE y)
        /\ TernaryXor(x, y) = TableXor(x, y)
    /\ TernaryNot("True") = "False"
    /\ TernaryNot("False") = "True"
    /\ TernaryNot("Void") = "Void"

Swapped(q) ==
    IF Len(q.restrictions) = 2
    THEN [q EXCEPT !.restrictions = <<q.restrictions[2], q.restrictions[1]>>]
    ELSE IF Len(q.restrictions) = 1 /\ q.restrictions[1].r \in {"Or", "Xor"}
    THEN [q EXCEPT !.restrictions =
              <<[q.restrictions[1] EXCEPT !.a = q.restrictions[1].b,
                                          !.b = q.restrictions[1].a]>>]
    ELSE q

\* C6: evaluation is order-independent: matches_query gives Or(a, b) and
\* Or(b, a) the same value, likewise Xor, and a permutation of the list of
\* restrictions leaves the value unchanged, also when the subqueries hold
\* DevouredBy restrictions that fill the shared cache.
C6_OrderIndependent ==
    pc = "done" =>
        \A i \in Catalogue : Standalone(i, query) = Standalone(i, Swapped(query))

\* the DevouredBy subqueries of a query, at every depth
RECURSIVE DevouredBySubqueries(_)
DevouredBySubqueries(q) ==
    UNION {LET res == q.restrictions[i] IN
           CASE res.r = "DevouredBy" -> {res.q} \cup DevouredBySubqueries(res.q)
             [] res.r \in {"Devours", "Not", "LenientNot", "Group"} ->
                    DevouredBySubqueries(res.q)
             [] res.r \in {"Or", "Xor"} ->
                    DevouredBySubqueries(res.a) \cup DevouredBySubqueries(res.b)
             [] OTHER -> {}
           : i \in 1 .. Len(q.restrictions)}

SetOf(list) == {list[x] : x \in 1 .. Len(list)}

\* the cards a search for DevouredBy(q) alone finds devoured
DevouredAlone(q) == DevouredCards(EmptyQuery, q, cards, EmptyCache, build)

\* C14: cache transparency: for a fixed catalogue the set of cards the cache
\* holds for a DevouredBy subquery q depends only on q and the catalogue,
\* whatever the other restrictions, the name or the sort of the query and
\* whichever card reached the subquery first.
C14_CacheTransparent ==
    \A q \in DevouredBySubqueries(query) :
        RenderQuery(q) \in DOMAIN cache =>
            SetOf(cache[RenderQuery(q)]) = SetOf(DevouredAlone(q).list)

-----------------------------------------------------------------------------
(* Claims about the sort step, checked on SpecSort *)

\* the place of card a in the result
PlaceOf(a) == CHOOSE i \in 1 .. Len(results) : results[i] = a

\* the key the sort of the query orders card c by
SortKey(c) ==
    CASE query.sort.by = "None" -> <<>>
      [] query.sort.by = "Fuzzy" /\ query.name # <<>> -> <<weighted_compare(c)>>
      [] query.sort.by = "Fuzzy" -> get_name(c)
      [] query.sort.by = "Alphabet" -> get_text_property(c, query.sort.property)
      [] query.sort.by = "Numeric" -> get_num_property(c, query.sort.property)

NameLtEq(a, b) == OptStrCmp(get_name(cards[a]), get_name(cards[b])) # "Greater"

\* C16: a fuzzy sort with a name orders the result by similarity descending
\* and, among cards of the same similarity, by name ascending; with an empty
\* name it orders by name ascending.
C16_FuzzySortTiesByName ==
    (pc = "done" /\ query.sort.by = "Fuzzy") =>
        \A i, j \in 1 .. Len(results) :
            i < j =>
                IF query.name = <<>> THEN NameLtEq(results[i], results[j])
                ELSE \/ weighted_compare(cards[results[i]])
                          > weighted_compare(cards[results[j]])
                     \/ /\ weighted_compare(cards[results[i]])
                            = weighted_compare(cards[results[j]])
                        /\ NameLtEq(results[i], results[j])

\* C17: the sort is stable: two result cards with equal sort keys stand in
\* the result in the order they had in the input, for every Sort variant.
C17_SortStable ==
    pc = "done" =>
        \A a, b \in SetOf(results) :
            (a < b /\ SortKey(cards[a]) = SortKey(cards[b])) =>
                PlaceOf(a) < PlaceOf(b)

-----------------------------------------------------------------------------
(* Claims about the query parser, checked on SpecParse *)

\* what query_parser returned, once it has returned
Parsed == pout[1]

\* C15: the text "SORT cost descending" parses to a query that restricts
\* nothing and sorts by cost, descending: SORT is a reserved word and no part
\* of the fuzzy name.
C15_SortKeywordParsed ==
    (pin = SORT_cost_descending /\ pout # None) =>
        /\ Parsed.ok
        /\ Parsed.query.restrictions = <<>>
        /\ Parsed.query.name = <<>>
        /\ Parsed.query.sort = SortNumeric("Cost", "Descending")

\* the modes in which the tokenizer is inside a pair of delimiters
DelimitedModes == {"QParam", "RegexParam", "SParam", "Group"}

\* C19: when the tokenizer reaches the end of the text inside a quoted
\* parameter, a regex parameter, a super-parameter or a group, query_parser
\* returns an error and no Query.
C19_UnclosedIsError ==
    (tk.result = "Running" /\ ppos = Len(pin) /\ tk.mode \in DelimitedModes)
        => ~query_parser(pin).ok

name_n == <<"n">>
name_c == <<"c">>
name_dby == <<"d", "b", "y">>
gt_1 == <<">", "1">>

\* the token each of the closed bodies stands for
ExpectedToken(body) ==
    CASE body = word_a -> TokWord(word_a)
      [] body = param_n_a -> TokParam(name_n, word_a)
      [] body = quoted_n_a -> TokParam(name_n, word_a)
      [] body = regex_n_a -> TokRegexParam(name_n, word_a)
      [] body = super_dby_a -> TokSuperParam(name_dby, <<TokWord(word_a)>>)
      [] body = group_a -> TokGroup(<<TokWord(word_a)>>)
      [] body = cost_gt_1 -> TokParam(name_c, gt_1)

\* the tokens of what follows
ExpectedTail(tail) ==
    CASE tail = <<>> -> <<>>
      [] tail = <<" ", "a">> -> <<TokWord(word_a)>>
      [] tail = <<" ", "n", ":", "a">> -> <<TokParam(name_n, word_a)>>

\* the locals of tokenize_query after the first n characters of q
RECURSIVE LocalsAfter(_, _)
LocalsAfter(q, n) ==
    IF n = 0 THEN TokenizerStart
    ELSE LET before == LocalsAfter(q, n - 1) IN
         IF before.result # "Running" THEN before ELSE TokenizeStep(before, q[n])

\* the tokenizer has consumed the whole of a text made of k hyphens, a closed
\* body and a tail, End included
TokenizedDashed(k, body, tail) ==
    /\ pin = Dashes(k) \o body \o tail
    /\ tk.result # "Running"

\* C20: one hyphen in front of a token wraps it in Not, two wrap it in
\* LenientNot, a third makes tokenize_query return InvalidPolarity; the
\* token behind is never wrapped, a Not or LenientNot on the stack holds one
\* token, and whenever the stack has just changed the polarity is positive.
C20_PolarityWrapsOneToken ==
    /\ \A k \in 0 .. MaxDashes, body \in ClosedBodies, tail \in Tails :
          TokenizedDashed(k, body, tail) =>
              CASE k = 0 -> /\ tk.result = "Ok"
                            /\ tk.tokens = <<ExpectedToken(body)>> \o ExpectedTail(tail)
                [] k = 1 -> /\ tk.result = "Ok"
                            /\ tk.tokens = <<TokNot(<<ExpectedToken(body)>>)>>
                                             \o ExpectedTail(tail)
                [] k = 2 -> /\ tk.result = "Ok"
                            /\ tk.tokens = <<TokLenientNot(<<ExpectedToken(body)>>)>>
                                             \o ExpectedTail(tail)
                [] OTHER -> tk.result = "InvalidPolarity"
    /\ \A i \in 1 .. Len(tk.tokens) :
          tk.tokens[i].t \in {"Not", "LenientNot"} => Len(tk.tokens[i].tokens) = 1
    /\ (ppos > 0 /\ tk.result = "Running"
        /\ tk.tokens # LocalsAfter(pin, ppos - 1).tokens)
          => tk.polarity = "True"

\* two hyphens in front of a regex parameter and a parameter behind it
C20_Witness ==
    /\ TokenizedDashed(2, regex_n_a, <<" ", "n", ":", "a">>)
    /\ tk.tokens = <<TokLenientNot(<<TokRegexParam(name_n, word_a)>>),
                     TokParam(name_n, word_a)>>

\* the locals of tokenize_query before the character it consumed last
Before == LocalsAfter(pin, ppos - 1)

\* the turn on End has not been taken
EndNotTaken == ppos > 0 /\ tk = TokenizeStep(Before, pin[ppos])

\* the tokenizer has just consumed a '-' in Word mode
HyphenInWordMode ==
    /\ EndNotTaken
    /\ pin[ppos] = "-"
    /\ Before.result = "Running"
    /\ Before.mode = "Word"

word_ab == <<"a", "b">>
dash_space_a == <<"-", " ", "a">>

\* C30: in Word mode every '-' switches the polarity, True to False, False
\* to Void, Void to the error InvalidPolarity, and leaves the word as it is,
\* empty or not: "a-b" is Not of the word "ab", a word with three hyphens is
\* rejected, and "- a" is the plain word "a".
C30_HyphenAlwaysSwitchesPolarity ==
    /\ HyphenInWordMode =>
          /\ tk.word = Before.word
          /\ tk.tokens = Before.tokens
          /\ CASE Before.polarity = "True" ->
                      tk.result = "Running" /\ tk.polarity = "False"
                [] Before.polarity = "False" ->
                      tk.result = "Running" /\ tk.polarity = "Void"
                [] Before.polarity = "Void" -> tk.result = "InvalidPolarity"
    /\ (pin = a_dash_b /\ tk.result # "Running") =>
          tk.result = "Ok" /\ tk.tokens = <<TokNot(<<TokWord(word_ab)>>)>>
    /\ (pin = a_b_three_dashes /\ ppos = Len(pin)) => tk.result = "InvalidPolarity"
    /\ (pin = dash_space_a /\ tk.result # "Running") =>
          tk.result = "Ok" /\ tk.tokens = <<TokWord(word_a)>>

\* the hyphen of "a-b" has been consumed: the word is still "a"
C30_Witness ==
    /\ pin = a_dash_b
    /\ ppos = 2
    /\ HyphenInWordMode
    /\ tk.word = word_a
    /\ tk.polarity = "False"

\* the token the operator word leaves on the stack, and the one B makes of it
PendingToken(op, tok) ==
    IF op = OR_word THEN TokOr(<<tok>>, None) ELSE TokXor(<<tok>>, None)
FilledToken(op, tokA, tokB) ==
    IF op = OR_word THEN TokOr(<<tokA>>, Some(<<tokB>>))
    ELSE TokXor(<<tokA>>, Some(<<tokB>>))

\* the tokens of what stands in front of A
FrontTokens(front) == IF front = <<>> THEN <<>> ELSE <<TokWord(word_a)>>

\* C21: in "A OR B" and "A XOR B" the operator word replaces A on the stack
\* by a pending Or([A], None), B and only B fills it, and what stands in
\* front of A stays as it is; an operator on an empty stack fails with
\* InvalidOr at once, and an operator whose right side is never filled makes
\* query_parser return InvalidOr.
C21_OrTakesNeighbours ==
    /\ \A front \in Fronts, bodyA \in ClosedBodies, op \in OperatorWords,
          bodyB \in ClosedBodies, tail \in Tails :
          pin = OrText(front, bodyA, op, bodyB, tail) =>
            /\ (EndNotTaken /\ ppos = Len(front \o bodyA) + Len(op) + 2) =>
                  /\ tk.result = "Running"
                  /\ tk.tokens = FrontTokens(front)
                                   \o <<PendingToken(op, ExpectedToken(bodyA))>>
            /\ tk.result # "Running" =>
                  /\ tk.result = "Ok"
                  /\ tk.tokens = FrontTokens(front)
                                   \o <<FilledToken(op, ExpectedToken(bodyA),
                                                    ExpectedToken(bodyB))>>
                                   \o ExpectedTail(tail)
            /\ pout # None => Parsed.ok
    /\ (pin \in LeadingOrTexts /\ ppos > Len(XOR_word)) => tk.result = "InvalidOr"
    /\ (pin \in UnfilledTexts /\ pout # None) =>
          ~Parsed.ok /\ Parsed.err = "InvalidOr"

\* a word, then a parameter XOR a group, then a word
C21_Witness ==
    /\ pin = OrText(<<"a", " ">>, param_n_a, XOR_word, group_a, <<" ", "a">>)
    /\ tk.result = "Ok"
    /\ tk.tokens = <<TokWord(word_a),
                     TokXor(<<TokParam(name_n, word_a)>>, Some(<<TokGroup(<<TokWord(word_a)>>)>>)),
                     TokWord(word_a)>>

\* the modes that count parentheses
NestedModes == {"SParam", "Group"}

\* what holds of the parenthesis counter in the locals st of a tokenize call
CounterTracksDepth(st) ==
    /\ st.paren_count >= 0
    /\ st.mode \notin NestedModes => st.paren_count = 0
    /\ (st.mode \in NestedModes /\ st.result = "Running") =>
          st.paren_count = ParenDepth(st.word, 1, 0)

\* the tokenizer has just consumed a ')' inside a super-parameter or a group
ClosingParenthesis ==
    /\ EndNotTaken
    /\ pin[ppos] = ")"
    /\ Before.result = "Running"
    /\ Before.mode \in NestedModes

\* the ')' closed the super-parameter or the group: the nested call was made
ClosedNested == tk.mode = "Word" \/ tk.result # "Running"

\* C26: the parenthesis counter is never negative and is 0 outside SParam
\* and Group mode, where it is the depth of the text collected so far; a ')'
\* closes the super-parameter or group exactly when the counter is 0, the
\* text handed to the nested call is balanced, the nested call counts with
\* a counter of its own, and the caller's counter is still 0 after it.
C26_ParenCounter ==
    /\ CounterTracksDepth(tk)
    /\ ClosingParenthesis =>
          /\ ClosedNested <=> Before.paren_count = 0
          /\ ClosedNested =>
                /\ ParenDepth(Before.word, 1, 0) = 0
                /\ tk.paren_count = 0
                /\ \A n \in 0 .. Len(Before.word) :
                      CounterTracksDepth(LocalsAfter(Before.word, n))
          /\ ~ClosedNested =>
                /\ tk.mode = Before.mode
                /\ tk.paren_count = Before.paren_count - 1
                /\ tk.word = Append(Before.word, ")")

\* the last but one ')' of "((a) -(b)))" closes the outer group, whose text
\* holds two groups
C26_Witness ==
    /\ pin = nested_groups
    /\ ppos = 10
    /\ ClosingParenthesis
    /\ Before.paren_count = 0
    /\ ParenDepth(Before.word, 1, 0) = 0
    /\ Len(Before.word) = 8
    /\ tk.mode = "Word"
    /\ tk.tokens = <<TokGroup(<<TokGroup(<<TokWord(word_a)>>),
                                TokNot(<<TokGroup(<<TokWord(<<"b">>)>>)>>)>>)>>

-----------------------------------------------------------------------------
(* Claims about the devoured-by cache, checked on SpecSearch *)

\* the key the DevouredBy arm files the list of a subquery under
CacheKey(q) == RenderQuery(q)

\* C27: the devoured-by cache key separates subqueries: within one search two
\* DevouredBy subqueries that differ in a restriction never render to the same
\* key, so that an evaluation never reads the list computed for another
\* subquery.
C27_KeySeparatesSubqueries ==
    \A q1, q2 \in DevouredBySubqueries(query) :
        q1 # q2 => CacheKey(q1) # CacheKey(q2)


\* the caches an evaluation inside the search can start from: what the cache
\* of the search holds, or a part of it
SubCaches == {[k \in D |-> cache[k]] : D \in SUBSET (DOMAIN cache)}

\* cache c2 holds every entry of cache c1, unchanged
Extends(c2, c1) == \A k \in DOMAIN c1 : k \in DOMAIN c2 /\ c2[k] = c1[k]

\* the scan of the catalogue for the devourers of subquery q
Devourers(q, ch) == FilterCards(q, cards, 1, <<>>, ch, build)

\* one evaluation of DevouredBy(q) from cache ch: a stored list is used as it
\* is and the cache is left alone; otherwise the key is new when it is
\* inserted, and nothing the cache held is changed or removed
EvaluatesOnce(q, ch) ==
    LET key == CacheKey(q)
        d == DevouredCards(query, q, cards, ch, build)
    IN IF key \in DOMAIN ch
       THEN d = [ok |-> TRUE, list |-> ch[key], cache |-> ch]
       ELSE d.ok =>
                /\ key \notin DOMAIN Devourers(q, ch).cache
                /\ Extends(Devourers(q, ch).cache, ch)
                /\ Extends(d.cache, Devourers(q, ch).cache)
                /\ DOMAIN d.cache = DOMAIN Devourers(q, ch).cache \cup {key}
                /\ d.cache[key] = d.list

\* C24: within one search the cache is mutated only the first time a
\* DevouredBy key is evaluated: a key is inserted at most once, a stored list
\* is never changed or removed, a later evaluation with that key uses the
\* stored list without scanning the catalogue, and a search starts from an
\* empty cache of its own.
C24_CacheWrittenOnce ==
    /\ [](/\ pos = 0 => cache = EmptyCache
          /\ \A q \in DevouredBySubqueries(query) :
                \A ch \in SubCaches : EvaluatesOnce(q, ch))
    /\ [][Extends(cache', cache)]_vars

\* a search whose second card read the list its first card stored, with
\* another list stored beside it
C24_Witness ==
    /\ pos = 2
    /\ Len(query.restrictions) = 1
    /\ query.restrictions[1].r = "DevouredBy"
    /\ CacheKey(query.restrictions[1].q) \in DOMAIN cache
    /\ cache[CacheKey(query.restrictions[1].q)] # <<>>
    /\ Cardinality(DOMAIN cache) = 2

-----------------------------------------------------------------------------
(* The kin tree: Kin::is_same_or_child and Kin::get_equalness applied to a *)
(* pair of kins.  A kin is its variant and, for the variants that carry an *)
(* Option, the child it names (None for the parent kin itself).            *)

Kin(variant, child) == [kin |-> variant, child |-> child]

ChildlessKins == {"Assassin", "Undead", "Reptile", "CultOfNa", "Sorcery", "Their"}
InsectKin == {"Ant", "Bee"}
PiezanKin == {"RedKingdom", "BlueKingdom", "BlackKingdom", "GreenKingdom"}
MachineKin == {"Blight"}

\* the children of a variant
ChildrenOf(variant) ==
    CASE variant = "Insect" -> InsectKin
      [] variant = "Piezan" -> PiezanKin
      [] variant = "Machine" -> MachineKin
      [] OTHER -> {}

ParentKins == {"Insect", "Piezan", "Machine"}

\* every value of the enum Kin
Kins ==
    {Kin(variant, None) : variant \in ChildlessKins \cup ParentKins}
    \cup UNION {{Kin(variant, Some(child)) : child \in ChildrenOf(variant)} :
                variant \in ParentKins}

\* Kin::is_same_or_child: the arms of the match in their order
is_same_or_child(self, other) ==
    IF self = other
       /\ self.kin \in {"Undead", "Assassin", "Reptile", "Sorcery", "Their"}
    THEN TRUE
    ELSE IF other.kin = "Sorcery" \/ self.kin = "Sorcery" THEN FALSE
    ELSE IF other.kin = "Their" \/ self.kin = "Their" THEN FALSE
    ELSE IF self.kin \in ParentKins /\ other.kin = self.kin
         THEN IF other.child = None THEN TRUE
              ELSE IF self.child = None THEN FALSE
              ELSE self.child[1] = other.child[1]
    ELSE FALSE

\* Kin::get_equalness; the f64 it returns is written as its text
get_equalness(self, other) ==
    IF is_same_or_child(self, other)
    THEN IF self = other THEN "1.0" ELSE "0.5"
    ELSE "0.0"

InitKin ==
    /\ build \in Builds
    /\ ka \in Kins
    /\ kb \in Kins
    /\ kres = None
    /\ NumIdle
    /\ SearchIdle
    /\ OrdIdle
    /\ ParseIdle
    /\ SerdeIdle
    /\ IdIdle

\* a.is_same_or_child(b) and a.get_equalness(b)
KinCompare ==
    /\ kres = None
    /\ kres' = Some([same_or_child |-> is_same_or_child(ka, kb),
                     equalness |-> get_equalness(ka, kb)])
    /\ UNCHANGED <<build, idVars, numVars, searchVars, ordVars, parseVars, serdeVars, ka, kb>>

NextKin == KinCompare

SpecKin == InitKin /\ [][NextKin]_vars

-----------------------------------------------------------------------------
(* Claims about the kin tree, checked on SpecKin *)

\* kin b is a child kin of kin a
IsChildKin(a, b) == a.kin = b.kin /\ a.child = None /\ b.child # None

\* C23: a.is_same_or_child(b) is true iff b is the same kin as a or a child
\* kin of a, for every kin including the childless ones; get_equalness is 1.0
\* for the same kin, 0.5 for a child and 0.0 otherwise.
C23_SameOrChild ==
    kres # None =>
        /\ kres[1].same_or_child = (kb = ka \/ IsChildKin(ka, kb))
        /\ kres[1].equalness = IF kb = ka THEN "1.0"
                               ELSE IF IsChildKin(ka, kb) THEN "0.5"
                               ELSE "0.0"

-----------------------------------------------------------------------------
(* JSON: a numeric slot or a rich text is handed to its Serialize impl,     *)
(* which writes a JSON value, and the JSON value is handed to the          *)
(* Deserialize impl of the same type.  A JSON value is a number, a string, *)
(* an array or an object; a deserializer yields None for an Err.           *)

JU64(n) == [j |-> "u64", n |-> n]
JStr(text) == [j |-> "str", text |-> text]
JSeq(items) == [j |-> "seq", items |-> items]
JMap(fields) == [j |-> "map", fields |-> fields]

\* char::is_alphabetic on the characters of the model
IsAlphabetic(ch) ==
    \/ \E i \in 1 .. Len(UpperChars) : UpperChars[i] = ch
    \/ \E i \in 1 .. Len(LowerChars) : LowerChars[i] = ch

\* Serialize for MaybeVar
SerializeMaybeVar(mv) ==
    IF mv.kind = "Const" THEN JU64(mv.n) ELSE JStr(<<mv.ch>>)

\* Serialize for MaybeImprecise
SerializeMaybeImprecise(mi) ==
    IF mi.kind = "Precise" THEN SerializeMaybeVar(mi.v)
    ELSE CASE mi.v.op = "Equal" -> JU64(mi.v.n)
           [] mi.v.op = "GreaterThan" -> JStr(<<">">> \o NatToText(mi.v.n))
           [] mi.v.op = "GreaterThanOrEqual" -> JStr(<<">", "=">> \o NatToText(mi.v.n))
           [] mi.v.op = "LowerThan" -> JStr(<<"<">> \o NatToText(mi.v.n))
           [] mi.v.op = "LowerThanOrEqual" -> JStr(<<"<", "=">> \o NatToText(mi.v.n))
           [] mi.v.op = "NotEqual" -> JStr(<<"!", "=">> \o NatToText(mi.v.n))

\* u64_as_maybe_var: the Err of a number that does not fit usize is None
u64_as_maybe_var(v) == IF v \in Usize THEN Some(Const(v)) ELSE None

\* str_as_maybe_var
str_as_maybe_var(v) ==
    IF v # <<>> /\ IsAlphabetic(Head(v)) THEN Some(Var(Head(v))) ELSE None

\* Deserialize for MaybeImprecise: MiVisitor's visit_str and visit_u64
DeserializeMaybeImprecise(json) ==
    CASE json.j = "str" ->
            IF str_as_maybe_var(json.text) # None
            THEN Some(Precise(str_as_maybe_var(json.text)[1]))
            ELSE IF text_comparison_parser(json.text) # None
                 THEN Some(Imprecise(text_comparison_parser(json.text)[1]))
                 ELSE None
      [] json.j = "u64" ->
            IF u64_as_maybe_var(json.n) # None
            THEN Some(Precise(u64_as_maybe_var(json.n)[1]))
            ELSE None
      [] OTHER -> None

\* the variants of RichElement, and RichString
StringElement(text) == [e |-> "String", text |-> text]
CardIdElement(display, identity) ==
    [e |-> "CardId", display |-> display, identity |-> identity]
SpecificCard(display, id) == [e |-> "SpecificCard", display |-> display, id |-> id]
CardSearch(display, srch) == [e |-> "CardSearch", display |-> display, search |-> srch]
Saga(strings) == [e |-> "Saga", strings |-> strings]
LineBreak == [e |-> "LineBreak"]
RichString(elements) == [elements |-> elements]

line_feed == <<"\n">>
carriage_return_line_feed == <<"\r\n">>

\* the text fields of a CardId that the derived impls write and read
IdTextFields == {"name", "type", "description"}

\* the derived Serialize for CardId: a field that is None is skipped
SerializeCardId(id) ==
    JMap([k \in {f \in IdTextFields : id[f] # None} |-> JStr(id[k][1])])

\* the derived Deserialize for CardId: a field that is absent is None
DeserializeCardId(json) ==
    IF json.j # "map" \/ ~(DOMAIN json.fields \subseteq IdTextFields)
       \/ \E k \in DOMAIN json.fields : json.fields[k].j # "str"
    THEN None
    ELSE Some([EmptyCardId EXCEPT
                 !.name = IF "name" \in DOMAIN json.fields
                          THEN Some(json.fields["name"].text) ELSE None,
                 !.type = IF "type" \in DOMAIN json.fields
                          THEN Some(json.fields["type"].text) ELSE None,
                 !.description = IF "description" \in DOMAIN json.fields
                                 THEN Some(json.fields["description"].text)
                                 ELSE None])

RECURSIVE SerializeRichString(_)
RECURSIVE SerializeRichElement(_)
RECURSIVE DeserializeRichString(_)
RECURSIVE DeserializeRichElement(_)

\* Serialize for RichString
SerializeRichString(rs) ==
    IF Len(rs.elements) = 1 /\ rs.elements[1].e = "String"
    THEN JStr(rs.elements[1].text)
    ELSE IF rs.elements = <<>> THEN JStr(<<>>)
    ELSE JSeq([i \in 1 .. Len(rs.elements) |-> SerializeRichElement(rs.elements[i])])

\* Serialize for RichElement
SerializeRichElement(el) ==
    CASE el.e = "String" -> JStr(el.text)
      [] el.e = "CardId" ->
            JMap([k \in {"display", "identity"} |->
                    IF k = "display" THEN JStr(el.display)
                    ELSE SerializeCardId(el.identity)])
      [] el.e = "SpecificCard" ->
            JMap([k \in {"display", "id"} |->
                    IF k = "display" THEN JStr(el.display) ELSE JStr(el.id)])
      [] el.e = "CardSearch" ->
            JMap([k \in {"display", "search"} |->
                    IF k = "display" THEN JStr(el.display) ELSE JStr(el.search)])
      [] el.e = "Saga" ->
            JSeq([i \in 1 .. Len(el.strings) |-> SerializeRichString(el.strings[i])])
      [] el.e = "LineBreak" -> JStr(line_feed)

\* Deserialize for RichString: DeVisitor's visit_str and visit_seq
DeserializeRichString(json) ==
    CASE json.j = "str" -> Some(RichString(<<StringElement(json.text)>>))
      [] json.j = "seq" ->
            LET read == [i \in 1 .. Len(json.items) |->
                            DeserializeRichElement(json.items[i])]
            IN IF \E i \in 1 .. Len(read) : read[i] = None THEN None
               ELSE Some(RichString([i \in 1 .. Len(read) |-> read[i][1]]))
      [] OTHER -> None

\* the match on (display, identity, id, search) that ends visit_map
ElementOfMap(fields) ==
    LET keys == DOMAIN fields IN
    IF ~(keys \subseteq {"display", "identity", "search", "id"}) THEN None
    ELSE IF "display" \notin keys \/ fields["display"].j # "str" THEN None
    ELSE IF keys = {"display", "search"} /\ fields["search"].j = "str"
         THEN Some(CardSearch(fields["display"].text, fields["search"].text))
    ELSE IF keys = {"display", "identity"}
            /\ DeserializeCardId(fields["identity"]) # None
         THEN Some(CardIdElement(fields["display"].text,
                                 DeserializeCardId(fields["identity"])[1]))
    ELSE IF keys = {"display", "id"} /\ fields["id"].j = "str"
         THEN Some(SpecificCard(fields["display"].text, fields["id"].text))
    ELSE None

\* Deserialize for RichElement: DeVisitor's visit_str, visit_seq and visit_map
DeserializeRichElement(json) ==
    CASE json.j = "str" ->
            IF json.text = line_feed \/ json.text = carriage_return_line_feed
            THEN Some(LineBreak)
            ELSE Some(StringElement(json.text))
      [] json.j = "seq" ->
            LET read == [i \in 1 .. Len(json.items) |->
                            DeserializeRichString(json.items[i])]
            IN IF \E i \in 1 .. Len(read) : read[i] = None THEN None
               ELSE Some(Saga([i \in 1 .. Len(read) |-> read[i][1]]))
      [] json.j = "map" -> ElementOfMap(json.fields)
      [] OTHER -> None

\* the serializer and the deserializer of a typed value
Serialize(value) ==
    IF value.ty = "MaybeImprecise" THEN SerializeMaybeImprecise(value.v)
    ELSE SerializeRichString(value.v)

Deserialize(ty, json) ==
    IF ty = "MaybeImprecise" THEN DeserializeMaybeImprecise(json)
    ELSE DeserializeRichString(json)

\* the largest number of a serialized slot, the longest serialized rich text
MaxSerdeNumber == 2
MaxElements == 2

\* the numeric slots that are serialized
SerdeSlots ==
    {Precise(Const(n)) : n \in 0 .. MaxSerdeNumber}
    \cup {Precise(Var(ch)) : ch \in {"x", "X"}}
    \cup {Imprecise(Cmp(op, n)) : op \in ComparisonOps, n \in 0 .. MaxSerdeNumber}

text_a == <<"a">>
text_b == <<"b">>

\* the elements the serialized rich texts are made of
SerdeElements ==
    {StringElement(<<>>), StringElement(text_a), StringElement(line_feed),
     LineBreak,
     CardIdElement(text_a, [EmptyCardId EXCEPT !.name = Some(text_b)]),
     SpecificCard(text_a, text_b),
     CardSearch(text_a, text_b),
     Saga(<<>>),
     Saga(<<RichString(<<>>)>>),
     Saga(<<RichString(<<StringElement(text_a)>>)>>),
     Saga(<<RichString(<<StringElement(text_a), LineBreak>>),
            RichString(<<StringElement(text_b)>>)>>)}

SerdeRichStrings == {RichString(els) : els \in SeqsUpTo(SerdeElements, MaxElements)}

SerdeValues ==
    {[ty |-> "MaybeImprecise", v |-> slot] : slot \in SerdeSlots}
    \cup {[ty |-> "RichString", v |-> rs] : rs \in SerdeRichStrings}

InitSerde ==
    /\ build \in Builds
    /\ sval \in SerdeValues
    /\ swire = None
    /\ sback = None
    /\ NumIdle
    /\ SearchIdle
    /\ OrdIdle
    /\ ParseIdle
    /\ KinIdle
    /\ IdIdle

\* serde_json::to_value(&x)
SerializeValue ==
    /\ swire = None
    /\ swire' = Some(Serialize(sval))
    /\ UNCHANGED <<build, idVars, numVars, searchVars, ordVars, parseVars, kinVars, sval, sback>>

\* serde_json::from_value(json)
DeserializeValue ==
    /\ swire # None
    /\ sback = None
    /\ sback' = Some(Deserialize(sval.ty, swire[1]))
    /\ UNCHANGED <<build, idVars, numVars, searchVars, ordVars, parseVars, kinVars, sval, swire>>

NextSerde == SerializeValue \/ DeserializeValue

SpecSerde == InitSerde /\ [][NextSerde]_vars

-----------------------------------------------------------------------------
(* Claims about JSON, checked on SpecSerde *)

\* C22: JSON round trip: deserialize(serialize(x)) == x for every numeric slot
\* (Precise(Const n), Precise(Var ch), Imprecise(cmp) for each of the six
\* comparators) and every rich text (empty, one element, several elements).
C22_JsonRoundTrip ==
    sback # None => sback[1] = Some(sval.v)

-----------------------------------------------------------------------------
(* Identities: CardId::get_as_query on a CardId, and the projected query   *)
(* evaluated on a card, as the DevouredBy arm does with the identity of a  *)
(* devours keyword.                                                        *)

ant_kin == <<"a", "n", "t">>
rot == <<"r", "o", "t">>

\* the card the identities are taken from
Described ==
    [DefaultCard EXCEPT !.name = Hex_name, !.type = command,
                        !.description = text_a, !.cost = Precise(Const(2)),
                        !.keywords = <<Keyword(rot, None)>>,
                        !.kins = <<ant_kin>>]

IdFields == {"name", "type", "description", "cost", "keywords", "kins"}

\* the cards that differ from it in one field
IdentityCards ==
    {Described,
     [Described EXCEPT !.name = Brood_name],
     [Described EXCEPT !.type = creature],
     [Described EXCEPT !.description = text_b],
     [Described EXCEPT !.cost = Precise(Const(1))],
     [Described EXCEPT !.keywords = <<>>],
     [Described EXCEPT !.kins = <<>>]}

\* the identities that populate some of its fields
CardIds ==
    {[f \in DOMAIN EmptyCardId |->
        IF f \in populated THEN Some(Described[f]) ELSE EmptyCardId[f]] :
     populated \in SUBSET IdFields}

InitIdentity ==
    /\ build \in Builds
    /\ gid \in CardIds
    /\ gcard \in IdentityCards
    /\ gout = None
    /\ NumIdle
    /\ SearchIdle
    /\ OrdIdle
    /\ ParseIdle
    /\ KinIdle
    /\ SerdeIdle

\* card_id.get_as_query(), and matches_query of the card on the query made of it
ProjectIdentity ==
    /\ gout = None
    /\ gout' = Some([restrictions |-> get_as_query(gid),
                     verdict |-> matches_query(gcard, SubQuery(get_as_query(gid)),
                                               <<gcard>>, EmptyCache, build).val])
    /\ UNCHANGED <<build, numVars, searchVars, ordVars, parseVars, kinVars,
                   serdeVars, gid, gcard>>

NextIdentity == ProjectIdentity

SpecIdentity == InitIdentity /\ [][NextIdentity]_vars

-----------------------------------------------------------------------------
(* Claims about identities, checked on SpecIdentity *)

\* the text property a text field of a CardId is compared with
TextOf(field) ==
    CASE field = "name" -> "Name"
      [] field = "type" -> "Type"
      [] field = "description" -> "Description"

\* restriction res is among the projected restrictions
Emitted(res) ==
    \E i \in 1 .. Len(gout[1].restrictions) : gout[1].restrictions[i] = res

\* the card differs from the identity on a field the identity populates
DiffersOnPopulated ==
    \E f \in IdFields : gid[f] # None /\ gid[f][1] # gcard[f]

\* C25: get_as_query emits one restriction for each populated field of the
\* CardId (name, type and description as Contains on that text, a numeric
\* field as an equality, each keyword as HasKw) and nothing for a field that
\* is not populated, so a card that differs from the CardId on a populated
\* field, type and description included, does not match the projected query.
C25_ProjectsEveryField ==
    gout # None =>
        /\ \A f \in IdTextFields :
              gid[f] # None <=>
                  \E text \in {Described[f]} :
                      Emitted(TextComparison(TextOf(f), Contains(text)))
        /\ gid.cost # None <=>
              Emitted(NumberComparison("Cost", Cmp("Equal", 2)))
        /\ gid.keywords # None <=> Emitted(HasKw(Contains(rot)))
        /\ DiffersOnPopulated => gout[1].verdict # "True"

-----------------------------------------------------------------------------
(* Devourers with several keywords: search on catalogues whose devourers   *)
(* carry more than one devours keyword, or one without an identity.        *)

glutton == <<"g", "l", "u", "t">>
picky == <<"p", "i", "c", "k">>
scout == <<"s", "c", "o", "u", "t">>

\* two cards that devour nothing
PlainBrood == [DefaultCard EXCEPT !.name = Brood_name, !.type = creature]
PlainHex == [DefaultCard EXCEPT !.name = Hex_name, !.type = creature]

\* a devourer of Hex and of Brood, one whose first devours keyword carries no
\* identity, and one whose devours keyword comes after another keyword
Glutton ==
    [DefaultCard EXCEPT !.name = glutton, !.type = creature,
                        !.keywords = <<DevoursNamed(Hex_name),
                                       DevoursNamed(Brood_name)>>]
Picky ==
    [DefaultCard EXCEPT !.name = picky, !.type = creature,
                        !.keywords = <<Keyword(devours, None),
                                       DevoursNamed(Brood_name)>>]
Scout ==
    [DefaultCard EXCEPT !.name = scout, !.type = creature,
                        !.keywords = <<Keyword(rot, None),
                                       DevoursNamed(Brood_name)>>]

DevourPool == {PlainBrood, PlainHex, Glutton, Picky, Scout}

DevourCatalogues == SeqsUpTo(DevourPool, MaxCards)

NameContains(text) == TextComparison("Name", Contains(text))

\* dby:(n:..) for each devourer, and devours:(n:..) for each devoured card
DevourQueries ==
    {Query(<<>>, <<DevouredBy(SubQuery(<<NameContains(name)>>))>>, SortNone) :
        name \in {glutton, picky, scout}}
    \cup {Query(<<>>, <<Devours(SubQuery(<<NameContains(name)>>))>>, SortNone) :
            name \in {Brood_name, Hex_name}}

InitDevour ==
    /\ build \in Builds
    /\ cards \in DevourCatalogues
    /\ query \in DevourQueries
    /\ sim = <<>>
    /\ pos = 0
    /\ cache = EmptyCache
    /\ verdicts = <<>>
    /\ results = <<>>
    /\ pc = "filter"
    /\ NumIdle
    /\ OrdIdle
    /\ ParseIdle
    /\ KinIdle
    /\ SerdeIdle
    /\ IdIdle

NextDevour == SearchFilter \/ SearchSort

SpecDevour == InitDevour /\ [][NextDevour]_vars

-----------------------------------------------------------------------------
(* Claims about devourers, checked on SpecDevour *)

\* devours:(n:..) describing the c-th card of the catalogue
DevoursCard(c) ==
    SubQuery(<<Devours(SubQuery(<<NameContains(cards[c].name)>>))>>)

\* C28: Devours and DevouredBy agree on a card with several devours keywords:
\* if card d matches q and one of d's devours keywords carries a CardId that
\* matches card c, so that d matches Devours of a query describing c, then c
\* matches DevouredBy(q), whatever the position of that keyword and whether
\* or not an earlier devours keyword lacks CardId data.
C28_DevoursAgreesWithDevouredBy ==
    (pc = "done" /\ IsDevouredByQuery) =>
        \A d \in Catalogue, c \in Catalogue :
            (/\ Standalone(d, query.restrictions[1].q) = "True"
             /\ SomeIdentityMatches(cards[d], c)
             /\ Standalone(d, DevoursCard(c)) = "True") =>
                verdicts[c] = "True"

-----------------------------------------------------------------------------
(* The devoured-by cache: search on queries made of DevouredBy             *)
(* restrictions, alone, paired and nested.                                 *)

CacheSubqueries ==
    {SubQuery(<<FnContainsA>>), SubQuery(<<FnEqualsA>>), SubQuery(<<NameHex>>)}

CacheRestrictionLists ==
    {<<DevouredBy(q)>> : q \in CacheSubqueries}
    \cup {<<DevouredBy(q1), DevouredBy(q2)>> :
            q1 \in CacheSubqueries, q2 \in CacheSubqueries}
    \cup {<<r>> : r \in {n \in Nested : DevouredBySubqueries(SubQuery(<<n>>)) # {}}}
    \cup {<<Devours(SubQuery(<<DevouredBy(q1)>>)), DevouredBy(q2)>> :
            q1 \in CacheSubqueries, q2 \in CacheSubqueries}

CacheQueries == {Query(<<>>, rs, SortNone) : rs \in CacheRestrictionLists}

InitCache ==
    /\ build \in Builds
    /\ cards \in Catalogues
    /\ query \in CacheQueries
    /\ sim = <<>>
    /\ pos = 0
    /\ cache = EmptyCache
    /\ verdicts = <<>>
    /\ results = <<>>
    /\ pc = "filter"
    /\ NumIdle
    /\ OrdIdle
    /\ ParseIdle
    /\ KinIdle
    /\ SerdeIdle
    /\ IdIdle

NextCache == SearchFilter \/ SearchSort

SpecCache == InitCache /\ [][NextCache]_vars

-----------------------------------------------------------------------------
(* The borrows of the RefCell an evaluation takes, in the order it takes   *)
(* and drops them.  The cache of the search that is running is cell 0; the *)
(* cache a nested search creates is the cell one deeper.                   *)

Borrow(cell) == [cell |-> cell, op |-> "borrow"]
Drop(cell) == [cell |-> cell, op |-> "drop"]
BorrowMut(cell) == [cell |-> cell, op |-> "borrow_mut"]
DropMut(cell) == [cell |-> cell, op |-> "drop_mut"]

\* a lookup whose Ref lives until the branch it decides has ended
LookupScope_HeldOverBranch(cell, branch) == <<Borrow(cell)>> \o branch \o <<Drop(cell)>>

\* let maybe_devourees = RefCell::borrow(cache).get(&key).cloned(): the Ref is
\* a temporary of the statement and is dropped before the branch runs
LookupScope(cell, branch) == <<Borrow(cell), Drop(cell)>> \o branch

\* cache.borrow_mut().insert(key, devoured_cards.clone())
InsertScope(cell) == <<BorrowMut(cell), DropMut(cell)>>

RECURSIVE QueryBorrows(_, _, _, _, _, _, _)
RECURSIVE RestrictionBorrows(_, _, _, _, _, _, _)
RECURSIVE KeywordBorrows(_, _, _, _, _, _, _)
RECURSIVE FilterBorrows(_, _, _, _, _, _)
RECURSIVE DevouredByBorrows(_, _, _, _, _, _)

\* the borrows of the loop of matches_query from the i-th restriction on
QueryBorrows(card, qry, i, cs, ch, bld, cell) ==
    IF i > Len(qry.restrictions) THEN <<>>
    ELSE LET m == MatchRestriction(card, qry.restrictions[i], qry, cs, ch, bld) IN
         RestrictionBorrows(card, qry.restrictions[i], qry, cs, ch, bld, cell)
         \o (IF m.val = "Panic" THEN <<>>
             ELSE QueryBorrows(card, qry, i + 1, cs, m.cache, bld, cell))

\* the borrows of one arm of the match
RestrictionBorrows(card, res, qry, cs, ch, bld, cell) ==
    CASE res.r \in {"Not", "LenientNot", "Group"} ->
            QueryBorrows(card, res.q, 1, cs, ch, bld, cell)
      [] res.r \in {"Or", "Xor"} ->
            LET res1 == matches_query(card, res.a, cs, ch, bld) IN
            QueryBorrows(card, res.a, 1, cs, ch, bld, cell)
            \o (IF res1.val = "Panic" THEN <<>>
                ELSE QueryBorrows(card, res.b, 1, cs, res1.cache, bld, cell))
      [] res.r = "Devours" ->
            IF IsNone(get_keywords(card)) THEN <<>>
            ELSE KeywordBorrows(get_keywords(card)[1], 1, res.q, cs, ch, bld, cell)
      [] res.r = "DevouredBy" -> DevouredByBorrows(qry, res.q, cs, ch, bld, cell)
      [] OTHER -> <<>>

\* the borrows of the Devours arm from the i-th keyword on
KeywordBorrows(kws, i, q, cs, ch, bld, cell) ==
    IF i > Len(kws) THEN <<>>
    ELSE IF kws[i].name = devours /\ IsSome(kws[i].data)
            /\ kws[i].data[1].tag = "CardId"
         THEN LET m == matches_query(kws[i].data[1].id, q, cs, ch, bld) IN
              QueryBorrows(kws[i].data[1].id, q, 1, cs, ch, bld, cell)
              \o (IF m.val \in {"Panic", "True"} THEN <<>>
                  ELSE KeywordBorrows(kws, i + 1, q, cs, m.cache, bld, cell))
         ELSE KeywordBorrows(kws, i + 1, q, cs, ch, bld, cell)

\* the borrows of a filter over the catalogue from the i-th card on
FilterBorrows(q, cs, i, ch, bld, cell) ==
    IF i > Len(cs) THEN <<>>
    ELSE LET m == matches_query(cs[i], q, cs, ch, bld) IN
         QueryBorrows(cs[i], q, 1, cs, ch, bld, cell)
         \o (IF m.val = "Panic" THEN <<>>
             ELSE FilterBorrows(q, cs, i + 1, m.cache, bld, cell))

\* the borrows of the DevouredBy arm: the lookup; on a miss the scan for the
\* devourers on the same cell, the nested search on a cell of its own, and
\* the insert
DevouredByBorrows(qry, devoured_by, cs, ch, bld, cell) ==
    LET key == RenderQuery(devoured_by)
        devourers == FilterCards(devoured_by, cs, 1, <<>>, ch, bld)
        queries == DevourerQueries(devourers.list, cs, 1)
        reduced == IF queries = <<>> THEN SubQuery(<<>>)
                   ELSE ReduceOr(queries[1], queries, 2)
        devourees_query == Query(qry.name, reduced.restrictions, qry.sort)
    IN LookupScope(cell,
          IF key \in DOMAIN ch THEN <<>>
          ELSE FilterBorrows(devoured_by, cs, 1, ch, bld, cell)
               \o (IF ~devourers.ok THEN <<>>
                   ELSE FilterBorrows(devourees_query, cs, 1, EmptyCache, bld, cell + 1)
                        \o (IF ~search(devourees_query, cs, bld).ok THEN <<>>
                            ELSE InsertScope(cell))))

\* the list without the last element equal to e
RECURSIVE RemoveLast(_, _)
RemoveLast(held, e) ==
    IF held = <<>> THEN <<>>
    ELSE IF held[Len(held)] = e THEN SubSeq(held, 1, Len(held) - 1)
    ELSE Append(RemoveLast(SubSeq(held, 1, Len(held) - 1), e), held[Len(held)])

\* RefCell's rule on the events from the i-th on, held being the borrows that
\* are live: borrow fails while a mutable borrow of the cell is live,
\* borrow_mut fails while any borrow of the cell is live
RECURSIVE BorrowsSucceed(_, _, _)
BorrowsSucceed(events, i, held) ==
    IF i > Len(events) THEN TRUE
    ELSE LET e == events[i] IN
         CASE e.op = "borrow" ->
                /\ \A h \in 1 .. Len(held) : held[h] # BorrowMut(e.cell)
                /\ BorrowsSucceed(events, i + 1, Append(held, e))
           [] e.op = "borrow_mut" ->
                /\ \A h \in 1 .. Len(held) : held[h].cell # e.cell
                /\ BorrowsSucceed(events, i + 1, Append(held, e))
           [] e.op = "drop" ->
                BorrowsSucceed(events, i + 1, RemoveLast(held, Borrow(e.cell)))
           [] e.op = "drop_mut" ->
                BorrowsSucceed(events, i + 1, RemoveLast(held, BorrowMut(e.cell)))

\* the borrows of the evaluation the filter makes on its next card
NextBorrows == QueryBorrows(cards[pos + 1], query, 1, cards, cache, build, 0)

\* C29: interior mutability is used safely: in every evaluation of a search,
\* the scans for the devourers of nested DevouredBy subqueries and the nested
\* searches included, the cache is never borrowed mutably while another
\* borrow of it is live, and never borrowed while a mutable borrow is live.
C29_BorrowsNeverOverlap ==
    (pc = "filter" /\ pos < Len(cards)) => BorrowsSucceed(NextBorrows, 1, <<>>)

\* an evaluation that finds a list stored by an earlier card, misses on a
\* nested subquery and inserts
C29_Witness ==
    /\ pc = "filter"
    /\ pos >= 1
    /\ pos < Len(cards)
    /\ DOMAIN cache # {}
    /\ \E i \in 1 .. Len(NextBorrows) : NextBorrows[i] = BorrowMut(0)
    /\ Len(NextBorrows) > 4

=============================================================================
